---- MODULE Spec2Model ----
(***************************************************************************)
(* A model of the orchestration runtime of marketing-agents-team.          *)
(*                                                                         *)
(* Part I models the sequential "brew" graph of                            *)
(* backend/app/brew/graph.py as it is compiled by StateGraph(BrewState):   *)
(* the graph state is the set of channels declared by the state schemas    *)
(* (brew/state.py), every node is a function from its input view and the   *)
(* outcome of the external call it makes to a partial update (or to an     *)
(* exception), and the engine merges the update into the channels and      *)
(* follows the edges.                                                      *)
(*                                                                         *)
(* Part II models the human-review "investigator" workflow: the graph of   *)
(* backend/app/investigator/graph.py compiled with a checkpointer and an   *)
(* interrupt after the planner, and the endpoints of backend/app/server.py *)
(* that start, resume and stream it.                                       *)
(*                                                                         *)
(* Texts the code inspects character by character (the user message, the   *)
(* feedback) are sequences of one-character strings; Python's None / a     *)
(* missing dict key is the empty tuple Absent and a present value v is     *)
(* <<v>>.                                                                  *)
(***************************************************************************)
EXTENDS Integers, Sequences, FiniteSets, TLC

VARIABLES
    state,      \* the thread's channel values (the checkpointed graph state)
    pc,         \* the node the engine runs next, or "idle" / "END" / "FAILED"
    runs,       \* number of invocations made on the thread
    visited,    \* history: the nodes run so far in the current run, in order
    dispatched, \* history: the routing decisions of task_router in this run
    generated,  \* history: the plan the structured model call returned
    last,       \* history: the last node step (node, outcome, how it ended)
    threads,    \* checkpoint store: thread id -> the thread's latest checkpoint
    queues,     \* investigator_event_queues: thread id -> queued events
    jobs,       \* the background runs in progress
    streams,    \* the open /stream connections with the events they delivered
    closed,     \* history: the event stream the last step ended, if any
    finished,   \* history: the graph run the last step ended, if any
    response,   \* history: the answer of the last step, if not a stream
    uuids,      \* number of thread ids drawn with uuid4
    calls       \* number of client calls made

server == <<threads, queues, jobs, streams, closed, finished, response, uuids, calls>>

vars == <<state, pc, runs, visited, dispatched, generated, last,
          threads, queues, jobs, streams, closed, finished, response, uuids, calls>>

\* the server right after startup: no thread, no queue, no run, no stream
\* (the three histories are Absent until there is something to record)
ServerIdle ==
    /\ threads = <<>>
    /\ queues = <<>>
    /\ jobs = <<>>
    /\ streams = <<>>
    /\ closed = <<>>
    /\ finished = <<>>
    /\ response = <<>>
    /\ uuids = 0
    /\ calls = 0

-----------------------------------------------------------------------------
(* Bounds of the model                                                     *)

MaxTasks == 2       \* longest plan the structured model call returns
MaxNodeTasks == 1   \* longest plan in a node's input drawn by InitNode
MaxRuns == 2        \* invocations on one checkpointed thread

(* Program constants                                                       *)

GreetingMaxTokens == 6
GeneralMaxTokens == 25
MaxDebateIterations == 3
DefaultPriority == 2

-----------------------------------------------------------------------------
(* Text helpers: str.lower, str.strip, str.replace, str.split, `in`        *)

Absent == <<>>

Lower(c) ==
    CASE c = "H" -> "h"
      [] c = "W" -> "w"
      [] c = "A" -> "a"
      [] c = "I" -> "i"
      [] c = "O" -> "o"
      [] c = "K" -> "k"
      [] c = "Y" -> "y"
      [] OTHER -> c

lower(text) == [i \in 1..Len(text) |-> Lower(text[i])]

RECURSIVE lstrip(_)
lstrip(text) ==
    IF text # <<>> /\ Head(text) = " " THEN lstrip(Tail(text)) ELSE text

RECURSIVE rstrip(_)
rstrip(text) ==
    IF text # <<>> /\ text[Len(text)] = " "
    THEN rstrip(SubSeq(text, 1, Len(text) - 1))
    ELSE text

strip(text) == rstrip(lstrip(text))

replace(text, old, new) ==
    [i \in 1..Len(text) |-> IF text[i] = old THEN new ELSE text[i]]

\* str.split(): the maximal runs of non-blank characters, in order
split(text) ==
    LET starts == { i \in 1..Len(text) :
                        text[i] # " " /\ (i = 1 \/ text[i - 1] = " ") }
        end_of(i) == CHOOSE j \in i..Len(text) :
                        /\ \A k \in i..j : text[k] # " "
                        /\ (j = Len(text) \/ text[j + 1] = " ")
        nth(k) == CHOOSE i \in starts :
                        Cardinality({ j \in starts : j < i }) = k - 1
    IN [k \in 1..Cardinality(starts) |-> SubSeq(text, nth(k), end_of(nth(k)))]

\* sub in text
Contains(sub, text) ==
    \E i \in 1..(Len(text) - Len(sub) + 1) :
        SubSeq(text, i, i + Len(sub) - 1) = sub

-----------------------------------------------------------------------------
(* Vocabularies of the planner heuristic                                   *)

simple_greetings ==
    { <<"h", "i">>,
      <<"h", "e", "l", "l", "o">>,
      <<"h", "e", "y">>,
      <<"y", "o">>,
      <<"s", "u", "p">>,
      <<"h", "o", "w", "d", "y">>,
      <<"k", "i", "d", "d", "a", "n">>,
      <<"k", "i", "d", "d", "a", "a", "n">>,
      <<"t", "u", "s", "s", "i", "n">>,
      <<"t", "u", "s", "i", "n">> }

action_keywords ==
    { <<"r", "e", "s", "e", "a", "r", "c", "h">>,
      <<"s", "e", "a", "r", "c", "h">>,
      <<"f", "i", "n", "d">>,
      <<"l", "a", "t", "e", "s", "t">>,
      <<"s", "o", "u", "r", "c", "e", "s">>,
      <<"c", "i", "t", "e">>,
      <<"t", "a", "v", "i", "l", "y">>,
      <<"n", "e", "w", "s">>,
      <<"t", "r", "e", "n", "d">>,
      <<"t", "w", "i", "t", "t", "e", "r">>,
      <<"t", "w", "e", "e", "t">>,
      <<"x">>,
      <<"l", "i", "n", "k", "e", "d", "i", "n">>,
      <<"p", "o", "s", "t">>,
      <<"c", "a", "m", "p", "a", "i", "g", "n">>,
      <<"s", "t", "r", "a", "t", "e", "g", "y">>,
      <<"a", "n", "a", "l", "y", "z", "e">>,
      <<"a", "n", "a", "l", "y", "s", "i", "s">>,
      <<"b", "e", "n", "c", "h", "m", "a", "r", "k">>,
      <<"k", "p", "i">>,
      <<"m", "e", "t", "r", "i", "c", "s">> }

identity_phrases ==
    { <<"w", "h", "o", " ", "a", "r", "e", " ", "y", "o", "u">>,
      <<"w", "h", "a", "t", " ", "c", "a", "n", " ", "y", "o", "u", " ", "d", "o">>,
      <<"h", "o", "w", " ", "a", "r", "e", " ", "y", "o", "u">> }

-----------------------------------------------------------------------------
(* The user messages the model submits                                     *)

TextEmpty == <<>>
TextHi == <<"h", "i">>
TextHiThere == <<"H", "i", " ", "t", "h", "e", "r", "e", "!">>
TextWhoAreYou == <<"w", "h", "o", " ", "a", "r", "e", " ", "y", "o", "u", "?">>
TextBrand == <<"w", "h", "a", "t", " ", "i", "s", " ", "a", " ", "b", "r", "a", "n", "d">>
TextFindNews == <<"f", "i", "n", "d", " ", "n", "e", "w", "s">>
TextExplain == <<"e", "x", "p", "l", "a", "i", "n", " ", "s", "e", "o">>
TextHiFindNews == <<"h", "i", " ", "f", "i", "n", "d", " ", "n", "e", "w", "s">>
Filler == <<" ", "t", "h", "e">>

RECURSIVE Pad(_, _)
Pad(text, n) == IF n = 0 THEN text ELSE Pad(text \o Filler, n - 1)

TextHiLong == Pad(TextHi, GreetingMaxTokens)
TextBrandLong == Pad(TextBrand, GeneralMaxTokens - 3)

Messages ==
    { TextEmpty, TextHi, TextHiThere, TextWhoAreYou, TextBrand, TextFindNews,
      TextExplain, TextHiFindNews, TextHiLong, TextBrandLong }

-----------------------------------------------------------------------------
(* Data model (brew/state.py)                                              *)

\* WorkerName = Literal["research", "content", "analytics", "social", "general"]
WorkerName == {"research", "content", "analytics", "social", "general"}

Priorities == 1..3

\* the workers the enumerated plans name (a subset of WorkerName), each
\* with the task text the plans give it
PlanWorkers == {"research", "content"}

TaskTextFor(worker) == IF worker = "research" THEN <<"a">> ELSE <<"b">>

TaskAssignment(worker, task, priority) ==
    [worker |-> worker, task |-> task, priority |-> priority]

Assignments ==
    { TaskAssignment(w, TaskTextFor(w), p) : w \in PlanWorkers, p \in Priorities }

TaskPlan(reasoning, tasks) == [reasoning |-> reasoning, tasks |-> tasks]

PlansUpTo(n) == UNION { [1..k -> Assignments] : k \in 0..n }

\* Normal return of a node (a partial state update) or an exception
Return(update) == [kind |-> "return", update |-> update]
Raise(error) == [kind |-> "raise", error |-> error]

\* WorkerReport(worker=..., task=..., status=..., result=...): pydantic
\* validates `worker` against WorkerName and raises ValidationError otherwise
WorkerReportAccepts(worker) == worker \in WorkerName

WorkerReport(worker, task, status, result) ==
    [worker |-> worker, task |-> task, status |-> status, result |-> result]

\* Channels of the compiled graph: the keys of the state schema and of the
\* input schemas of the nodes (the annotation of each node's parameter)
BrewStateKeys ==
    {"messages", "task_plan", "worker_reports", "next_task_index",
     "final_response", "status"}

\* a faulty variant of WorkerStateKeys: the debate's keys declared too
WorkerStateKeysWithDebate ==
    {"assignment", "worker_reports", "next_task_index",
     "research_data", "iteration_count", "critique_feedback"}

WorkerStateKeys == {"assignment", "worker_reports", "next_task_index"}

Channels == BrewStateKeys \cup WorkerStateKeys

\* faulty variant: worker_reports declared without its reducer
ReducerKeysNone == {}

\* Annotated[list[WorkerReport], operator.add]
ReducerKeys == {"worker_reports"}

WorkerNodes ==
    {"research_worker", "reviewer_worker", "strategist_worker", "content_worker",
     "analytics_worker", "social_worker", "report_worker", "general_worker"}

NodeNames == {"planner", "task_router", "synthesizer"} \cup WorkerNodes

InputSchema(node) ==
    IF node \in WorkerNodes THEN WorkerStateKeys ELSE BrewStateKeys

\* state.get(key, default) on the dict a node or routing function receives
Has(view, key) == key \in DOMAIN view /\ view[key] # Absent
Get(view, key, default) == IF Has(view, key) THEN view[key][1] ELSE default

-----------------------------------------------------------------------------
(* Outcomes of the external calls (model, deep agents)                     *)

NoOutcome == [kind |-> "none"]

PlanOutcomes ==
    { [kind |-> "plan", tasks |-> p] : p \in PlansUpTo(MaxTasks) }
        \cup { [kind |-> "raise", error |-> "OutputParserException"] }

\* last message content of an agent run; "" makes the code use str(result)
AgentTexts == {"APPROVE", "REJECT: missing pricing data", "findings", ""}

AgentOutcomes ==
    { [kind |-> "text", text |-> t] : t \in AgentTexts }
        \cup { [kind |-> "raise", error |-> "boom"] }

ModelOutcomes ==
    { [kind |-> "text", text |-> "reply"], [kind |-> "raise", error |-> "boom"] }

\* "REJECT" in feedback
HasREJECT(text) == text \in {"REJECT: missing pricing data"}

-----------------------------------------------------------------------------
(* planner (brew/graph.py)                                                 *)

\* the last message's content
user_text_of(view) ==
    LET messages == Get(view, "messages", <<>>)
    IN IF messages = <<>> THEN <<>> ELSE messages[Len(messages)]

tokens_of(user_lower) == split(replace(replace(user_lower, "?", " "), "!", " "))

is_action(user_lower) == \E k \in action_keywords : Contains(k, user_lower)

\* faulty variant: the whole message is compared with the greeting words
is_greeting_whole_message(tokens) ==
    Len(tokens) = 1 /\ tokens[1] \in simple_greetings

is_greeting_like(tokens) ==
    Len(tokens) <= GreetingMaxTokens
        /\ \E i \in 1..Len(tokens) : tokens[i] \in simple_greetings

simple(user_lower) ==
    LET tokens == tokens_of(user_lower)
    IN is_greeting_like(tokens)
        \/ (Len(tokens) <= GreetingMaxTokens
            /\ ~is_action(user_lower)
            /\ \E k \in identity_phrases : Contains(k, user_lower))

\* which of the planner's three returns a message takes
planner_path(user_text) ==
    LET user_lower == strip(lower(user_text))
    IN IF simple(user_lower) THEN "direct"
       ELSE IF ~is_action(user_lower)
                /\ Len(tokens_of(user_lower)) <= GeneralMaxTokens
            THEN "general"
            ELSE "structured"

\* planner_path, evaluated once for each message of the model
PlannerPathOf == [text \in Messages |-> planner_path(text)]

PlannerPath(user_text) == PlannerPathOf[user_text]

\* key=lambda t: getattr(t, "priority", 2) or 2
sort_key(t) == IF t.priority = 0 THEN DefaultPriority ELSE t.priority

\* sorted(): a stable sort, here by insertion behind the elements whose key
\* is not greater
RECURSIVE insert_sorted(_, _)
insert_sorted(s, t) ==
    IF s = <<>> THEN <<t>>
    ELSE IF sort_key(Head(s)) <= sort_key(t)
         THEN <<Head(s)>> \o insert_sorted(Tail(s), t)
         ELSE <<t>> \o s

RECURSIVE sorted_from(_, _)
sorted_from(tasks, acc) ==
    IF tasks = <<>> THEN acc
    ELSE sorted_from(Tail(tasks), insert_sorted(acc, Head(tasks)))

\* faulty variant: a sort that is not stable (a task goes before its equals)
RECURSIVE insert_before_equals(_, _)
insert_before_equals(s, t) ==
    IF s = <<>> THEN <<t>>
    ELSE IF sort_key(Head(s)) < sort_key(t)
         THEN <<Head(s)>> \o insert_before_equals(Tail(s), t)
         ELSE <<t>> \o s

RECURSIVE unstable_from(_, _)
unstable_from(tasks, acc) ==
    IF tasks = <<>> THEN acc
    ELSE unstable_from(Tail(tasks), insert_before_equals(acc, Head(tasks)))

sorted_unstable(tasks) == unstable_from(tasks, <<>>)

sorted(tasks) == sorted_from(tasks, <<>>)

planner(view, outcome) ==
    LET user_text == user_text_of(view)
        path == PlannerPath(user_text)
    IN CASE path = "direct" ->
              Return([status |-> <<"Direct response">>,
                      task_plan |-> TaskPlan("Direct response", <<>>)])
         [] path = "general" ->
              Return([task_plan |->
                          TaskPlan("General question - no internet needed",
                                   <<TaskAssignment("general", user_text, 1)>>),
                      status |-> <<"Planning complete", 1>>])
         [] OTHER ->
              IF outcome.kind = "raise" THEN Raise(outcome.error)
              ELSE LET tasks == IF outcome.tasks # <<>>
                                THEN sorted(outcome.tasks)
                                ELSE outcome.tasks
                   IN Return([task_plan |-> TaskPlan("generated", tasks),
                              status |-> <<"Planning complete", Len(tasks)>>,
                              next_task_index |-> 0])

-----------------------------------------------------------------------------
(* task_router                                                             *)

task_router(view) ==
    LET idx == Get(view, "next_task_index", 0)
    IN IF ~Has(view, "task_plan") \/ Get(view, "task_plan", Absent).tasks = <<>>
       THEN Return([route |-> "synthesizer"])
       ELSE LET tasks == Get(view, "task_plan", Absent).tasks
            IN IF idx >= Len(tasks)
               THEN Return([route |-> "synthesizer"])
               ELSE Return([route |-> tasks[idx + 1].worker \o "_worker",
                            assignment |-> tasks[idx + 1]])

-----------------------------------------------------------------------------
(* The worker wrapper and the worker nodes                                 *)

\* the text the wrapper takes from the agent's result ("" -> str(result))
extract_text(outcome) == IF outcome.text = "" THEN "<str(result)>" ELSE outcome.text

\* _run_worker(agent, state, worker_name, override_task, increment_index);
\* override_task = <<>> stands for None / ""
run_worker(view, worker_name, override_task, increment_index, outcome) ==
    LET has_assignment == Has(view, "assignment")
        assignment == Get(view, "assignment", Absent)
        task_text == IF override_task # <<>> THEN override_task
                     ELSE IF has_assignment THEN assignment.task ELSE <<>>
        next_index == Get(view, "next_task_index", 0)
                          + (IF increment_index THEN 1 ELSE 0)
    IN IF task_text = <<>>
       THEN IF WorkerReportAccepts(worker_name)
            THEN Return([worker_reports |->
                             <<WorkerReport(worker_name, <<>>, "failed",
                                            "Missing assignment.")>>,
                         next_task_index |-> next_index])
            ELSE Raise("ValidationError")
       ELSE IF ~has_assignment
            THEN Raise("AttributeError") \* assignment.task on None
            ELSE IF outcome.kind = "text" /\ WorkerReportAccepts(worker_name)
                 THEN Return([worker_reports |->
                                  <<WorkerReport(worker_name, assignment.task,
                                                 "success", extract_text(outcome))>>,
                              next_task_index |-> next_index])
                 \* except Exception as e: the agent raised, or building
                 \* the success report did
                 ELSE IF WorkerReportAccepts(worker_name)
                      THEN Return([worker_reports |->
                                       <<WorkerReport(worker_name, assignment.task,
                                                      "failed",
                                                      "Worker failed: " \o outcome.error)>>,
                                   next_task_index |-> next_index])
                      ELSE Raise("ValidationError")

\* the delta prompt of round 2+ (a non-empty text built from the task)
delta_prompt(task, existing_data, feedback) == <<"#">> \o task

research_worker(view, outcome) ==
    IF ~Has(view, "assignment") THEN Raise("AttributeError")
    ELSE
    LET task == Get(view, "assignment", Absent).task
        feedback == Get(view, "critique_feedback", "")
        existing_data == Get(view, "research_data", <<>>)
        input_msg == IF feedback # ""
                     THEN delta_prompt(task, existing_data, feedback)
                     ELSE task
        res == run_worker(view, "research", input_msg, FALSE, outcome)
    IN IF res.kind = "raise" THEN res
       ELSE LET new_text == res.update.worker_reports[1].result
                \* research_data as the sequence of its "\n\n"-joined parts
                combined_text == IF existing_data # <<>>
                                 THEN Append(existing_data, new_text)
                                 ELSE <<new_text>>
                current_iter == Get(view, "iteration_count", 0)
            IN Return([worker_reports |-> res.update.worker_reports,
                       next_task_index |-> res.update.next_task_index,
                       research_data |-> combined_text,
                       iteration_count |-> current_iter + 1])

reviewer_worker(view, outcome) ==
    LET res == run_worker(view, "reviewer", <<>>, FALSE, outcome)
    IN IF res.kind = "raise" THEN res
       ELSE Return([worker_reports |-> res.update.worker_reports,
                    next_task_index |-> res.update.next_task_index,
                    critique_feedback |-> res.update.worker_reports[1].result])

strategist_worker(view, outcome) ==
    run_worker(view, "strategist", <<>>, TRUE, outcome)

content_worker(view, outcome) == run_worker(view, "content", <<>>, TRUE, outcome)

analytics_worker(view, outcome) == run_worker(view, "analytics", <<>>, TRUE, outcome)

social_worker(view, outcome) == run_worker(view, "social", <<>>, TRUE, outcome)

report_worker(view, outcome) == run_worker(view, "report", <<>>, TRUE, outcome)

general_worker(view, outcome) == run_worker(view, "general", <<>>, TRUE, outcome)

\* whether the node's code reaches agent.ainvoke on this input
InvokesAgent(node, view) ==
    /\ Has(view, "assignment")
    /\ Get(view, "assignment", Absent).task # <<>>

-----------------------------------------------------------------------------
(* synthesizer                                                             *)

\* the "## worker (status) / Task / result" text of a report
report_text(r) == <<r.worker, r.status, r.task, r.result>>

synthesizer(view, outcome) ==
    LET reports == Get(view, "worker_reports", <<>>)
        reports_text == [i \in 1..Len(reports) |-> report_text(reports[i])]
    IN IF outcome.kind = "raise" THEN Raise(outcome.error)
       ELSE Return([final_response |->
                        [text |-> outcome.text, prompt_reports |-> reports_text],
                    status |-> <<"Synthesis complete">>])

-----------------------------------------------------------------------------
(* The compiled graph: channels, writes and edges (create_brew_graph)      *)

\* the dict a node, or a routing function behind it, is given: the channels
\* of the node's input schema
ViewOf(node, st) == [k \in InputSchema(node) |-> st[k]]

\* merge of a node's update: keys that are no channel are not stored, a
\* reducer channel appends, any other channel is replaced
ApplyWrites(st, update) ==
    [k \in Channels |->
        IF k \in DOMAIN update
        THEN IF k \in ReducerKeys
             THEN <<Get(st, k, <<>>) \o update[k]>>
             ELSE <<update[k]>>
        ELSE st[k]]

\* lambda state: state.get("route", "synthesizer")
route_of(view) == Get(view, "route", "synthesizer")

should_continue_debate(view) ==
    LET feedback == Get(view, "critique_feedback", "")
        iterations == Get(view, "iteration_count", 0)
    IN IF HasREJECT(feedback) /\ iterations < MaxDebateIterations
       THEN "research_worker"
       ELSE "strategist_worker"

\* add_edge / add_conditional_edges: the node that follows `node`
Successor(node, st) ==
    CASE node = "planner" -> "task_router"
      [] node = "task_router" -> route_of(ViewOf(node, st))
      [] node = "research_worker" -> "reviewer_worker"
      [] node = "reviewer_worker" -> should_continue_debate(ViewOf(node, st))
      [] node = "synthesizer" -> "END"
      [] OTHER -> "task_router"

\* the node functions by name
Node(node, view, outcome) ==
    CASE node = "planner" -> planner(view, outcome)
      [] node = "task_router" -> task_router(view)
      [] node = "research_worker" -> research_worker(view, outcome)
      [] node = "reviewer_worker" -> reviewer_worker(view, outcome)
      [] node = "strategist_worker" -> strategist_worker(view, outcome)
      [] node = "content_worker" -> content_worker(view, outcome)
      [] node = "analytics_worker" -> analytics_worker(view, outcome)
      [] node = "social_worker" -> social_worker(view, outcome)
      [] node = "report_worker" -> report_worker(view, outcome)
      [] node = "general_worker" -> general_worker(view, outcome)
      [] node = "synthesizer" -> synthesizer(view, outcome)

\* the outcomes of the external call the node makes on this input
Outcomes(node, view) ==
    CASE node = "planner" ->
              IF PlannerPath(user_text_of(view)) = "structured"
              THEN PlanOutcomes ELSE {NoOutcome}
      [] node = "task_router" -> {NoOutcome}
      [] node = "synthesizer" -> ModelOutcomes
      [] OTHER -> IF InvokesAgent(node, view) THEN AgentOutcomes ELSE {NoOutcome}

EmptyState == [k \in Channels |-> Absent]

NoStep == [node |-> "none", outcome |-> NoOutcome, raised |-> FALSE]

Init ==
    /\ state = EmptyState
    /\ pc = "idle"
    /\ runs = 0
    /\ visited = <<>>
    /\ dispatched = <<>>
    /\ generated = Absent
    /\ last = NoStep
    /\ ServerIdle

\* graph.invoke({"messages": [HumanMessage(text)]}, thread): a new run on
\* the thread's stored state
Invoke ==
    /\ pc \in {"idle", "END", "FAILED"}
    /\ runs < MaxRuns
    /\ \E text \in Messages :
          state' = ApplyWrites(state, [messages |-> <<text>>])
    /\ pc' = "planner"
    /\ runs' = runs + 1
    /\ visited' = <<>>
    /\ dispatched' = <<>>
    /\ generated' = Absent
    /\ last' = [node |-> "START", outcome |-> NoOutcome, raised |-> FALSE]
    /\ UNCHANGED server

\* one step of the engine: run the scheduled node on its view, store its
\* writes and follow its edge; an exception ends the run and leaves the
\* stored state as it was
Step(node) ==
    /\ pc = node
    /\ \E outcome \in Outcomes(node, ViewOf(node, state)) :
          LET res == Node(node, ViewOf(node, state), outcome)
          IN /\ IF res.kind = "raise"
                THEN state' = state /\ pc' = "FAILED"
                ELSE /\ state' = ApplyWrites(state, res.update)
                     /\ pc' = Successor(node, state')
             /\ generated' = IF node = "planner" /\ outcome.kind = "plan"
                             THEN <<outcome.tasks>> ELSE generated
             /\ last' = [node |-> node, outcome |-> outcome,
                         raised |-> (res.kind = "raise")]
    /\ visited' = Append(visited, node)
    /\ dispatched' = IF node = "task_router" /\ pc' \in WorkerNodes
                     THEN Append(dispatched,
                                 [index |-> Get(state, "next_task_index", 0),
                                  to |-> pc'])
                     ELSE dispatched
    /\ UNCHANGED <<runs, server>>

Superstep == \E node \in NodeNames : Step(node)

Next == Invoke \/ Superstep

Spec == Init /\ [][Next]_vars

-----------------------------------------------------------------------------
(* The nodes taken one by one: every node started on every input of its    *)
(* input schema (within the bounds), the engine running on from there      *)

\* assignments a node may find in its input (the empty task text included)
NodeAssignments ==
    Assignments \cup { TaskAssignment(w, <<>>, 1) : w \in PlanWorkers }

StoredReport == WorkerReport("content", <<"a">>, "success", "findings")

\* what a worker's input holds of an earlier debate: nothing, unless the
\* worker's input schema declares the key
DebateCounts ==
    IF "iteration_count" \in WorkerStateKeys THEN {Absent, <<1>>} ELSE {Absent}

DebateVerdicts ==
    IF "critique_feedback" \in WorkerStateKeys
    THEN {Absent, <<"REJECT: missing pricing data">>} ELSE {Absent}

NodeInputs(node) ==
    IF node \in WorkerNodes
    THEN { [k \in Channels |->
              CASE k = "assignment" -> a
                [] k = "worker_reports" -> r
                [] k = "next_task_index" -> i
                [] k = "iteration_count" -> c
                [] k = "critique_feedback" -> f
                [] OTHER -> Absent] :
           a \in {Absent} \cup { <<x>> : x \in NodeAssignments },
           r \in {Absent, <<(<<StoredReport>>)>>},
           i \in {Absent} \cup { <<n>> : n \in 0..MaxTasks },
           c \in DebateCounts,
           f \in DebateVerdicts }
    ELSE { [k \in Channels |->
              CASE k = "messages" -> m
                [] k = "task_plan" -> p
                [] k = "worker_reports" -> r
                [] k = "next_task_index" -> i
                [] OTHER -> Absent] :
           m \in { <<(<<text>>)>> : text \in Messages },
           p \in {Absent} \cup
                 { <<TaskPlan("generated", sorted(t))>> : t \in PlansUpTo(MaxNodeTasks) },
           r \in {Absent, <<(<<StoredReport>>)>>},
           i \in {Absent} \cup { <<n>> : n \in 0..MaxTasks } }

InitNode ==
    /\ pc \in NodeNames
    /\ state \in NodeInputs(pc)
    /\ runs = 0
    /\ visited = <<>>
    /\ dispatched = <<>>
    /\ generated = Absent
    /\ last = NoStep
    /\ ServerIdle

Run_planner == Step("planner")
Run_task_router == Step("task_router")
Run_research_worker == Step("research_worker")
Run_reviewer_worker == Step("reviewer_worker")
Run_strategist_worker == Step("strategist_worker")
Run_content_worker == Step("content_worker")
Run_analytics_worker == Step("analytics_worker")
Run_social_worker == Step("social_worker")
Run_report_worker == Step("report_worker")
Run_general_worker == Step("general_worker")
Run_synthesizer == Step("synthesizer")

NextNode ==
    \/ Run_planner
    \/ Run_task_router
    \/ Run_research_worker
    \/ Run_reviewer_worker
    \/ Run_strategist_worker
    \/ Run_content_worker
    \/ Run_analytics_worker
    \/ Run_social_worker
    \/ Run_report_worker
    \/ Run_general_worker
    \/ Run_synthesizer

SpecNode == InitNode /\ [][NextNode]_vars

-----------------------------------------------------------------------------
(* Properties                                                              *)

Reports(st) == Get(st, "worker_reports", <<>>)
Tasks(st) == IF Has(st, "task_plan") THEN Get(st, "task_plan", Absent).tasks ELSE <<>>
Cursor(st) == Get(st, "next_task_index", 0)
CurrentMessage == user_text_of(state)

IsPrefix(s, t) == Len(s) <= Len(t) /\ SubSeq(t, 1, Len(s)) = s

Count(seq, x) == Cardinality({ i \in DOMAIN seq : seq[i] = x })

\* executions of research_worker since task_router last ran (one plan slot)
ResearchRuns ==
    LET routers == { i \in DOMAIN visited : visited[i] = "task_router" }
        from == IF routers = {} THEN 0
                ELSE CHOOSE i \in routers : \A j \in routers : j <= i
    IN Cardinality({ i \in DOMAIN visited :
                        i > from /\ visited[i] = "research_worker" })

NodeOf(worker) == worker \o "_worker"

\* C1: for every research assignment the debate ends with strategist_worker
\* dispatched, after at most 3 executions of research_worker.
C1_DebateEndsAtStrategistWithinThree ==
    ( /\ Has(state, "assignment")
      /\ Get(state, "assignment", Absent).worker = "research"
      /\ Count(visited, "research_worker") > 0
      /\ pc \notin {"research_worker", "reviewer_worker"} )
    => ( /\ ResearchRuns <= MaxDebateIterations
         /\ (pc = "strategist_worker" \/ Count(visited, "strategist_worker") > 0) )

C3_VerdictDecidesNextNode ==
    (last.node = "reviewer_worker" /\ last.outcome.kind = "text")
    => pc = IF HasREJECT(last.outcome.text) /\ ResearchRuns < MaxDebateIterations
            THEN "research_worker"
            ELSE "strategist_worker"

\* C4: a worker node whose agent raises returns normally with one report of
\* status failed carrying the exception message, and the run goes on.
C4_RaisingWorkerYieldsFailedReport ==
    (last.node \in WorkerNodes /\ last.outcome.kind = "raise")
    => /\ ~last.raised
       /\ pc # "FAILED"
       /\ Reports(state) # <<>>
       /\ LET r == Reports(state)[Len(Reports(state))]
          IN /\ NodeOf(r.worker) = last.node
             /\ r.status = "failed"
             /\ r.result = "Worker failed: " \o last.outcome.error

\* C5: worker_reports only grows by appending: every step leaves the old
\* value as a prefix, a worker node that returns appends exactly one report,
\* its own, and a step of any other kind (or one that raises) appends none.
C5_ReportsAppendOnly ==
    [][ /\ IsPrefix(Reports(state), Reports(state'))
        /\ (pc \in WorkerNodes /\ visited' # visited /\ ~last'.raised)
              => /\ Len(Reports(state')) = Len(Reports(state)) + 1
                 /\ NodeOf(Reports(state')[Len(Reports(state'))].worker) = pc
        /\ ~(pc \in WorkerNodes /\ visited' # visited /\ ~last'.raised)
              => Reports(state') = Reports(state) ]_vars

C5_Witness ==
    /\ last.node = "content_worker"
    /\ ~last.raised
    /\ Reports(state) = <<StoredReport,
                          WorkerReport("content", <<"b">>, "success", "findings")>>

GreetingRequests == {TextHi, TextHiThere, TextHiFindNews}

\* C8: a run for a greeting-like request stores a plan with zero tasks, runs
\* planner, task_router, synthesizer and no worker node, and at END holds a
\* reply the synthesizer made from no report of this run.
C8_GreetingGoesStraightToSynthesizer ==
    (pc # "idle" /\ CurrentMessage \in GreetingRequests)
    => /\ IsPrefix(visited, <<"planner", "task_router", "synthesizer">>)
       /\ pc \notin WorkerNodes
       /\ dispatched = <<>>
       /\ Len(visited) >= 1 => (Has(state, "task_plan") /\ Tasks(state) = <<>>)
       /\ pc = "END" =>
             /\ visited = <<"planner", "task_router", "synthesizer">>
             /\ Get(state, "status", <<>>) = <<"Synthesis complete">>
             /\ Has(state, "final_response")

C8_Witness ==
    /\ pc = "END"
    /\ CurrentMessage = TextHi
    /\ visited = <<"planner", "task_router", "synthesizer">>
    /\ Tasks(state) = <<>>

\* C9: the stored task list is the generated list stably sorted by ascending
\* priority: same length, ascending, the tasks of each priority in their
\* generated order; sorting it again changes nothing.
C9_StoredPlanIsStableSort ==
    generated # Absent =>
        LET g == generated[1]
            s == Tasks(state)
        IN /\ Len(s) = Len(g)
           /\ \A i, j \in 1..Len(s) : i < j => s[i].priority <= s[j].priority
           /\ \A p \in Priorities :
                 LET HasPriority(t) == t.priority = p
                 IN SelectSeq(s, HasPriority) = SelectSeq(g, HasPriority)
           /\ sorted(s) = s

C9_Witness ==
    /\ generated # Absent
    /\ Len(generated[1]) = 2
    /\ generated[1][1].priority = generated[1][2].priority
    /\ generated[1][1].task # generated[1][2].task
    /\ Tasks(state) = generated[1]
    /\ pc = "END"

\* C10: after every planner step the plan is defined, and when the
\* structured plan generation failed it is the single-task fallback plan
\* made from the user's text.
C10_PlanDefinedAfterPlanning ==
    last.node = "planner" =>
        /\ Has(state, "task_plan")
        /\ last.outcome.kind = "raise" =>
              /\ Len(Tasks(state)) = 1
              /\ Tasks(state)[1].task = CurrentMessage

-----------------------------------------------------------------------------
(***************************************************************************)
(* Part II: the human-review (investigator) workflow                       *)
(*                                                                         *)
(* The graph planner -> {executor | planner} -> reporter of                *)
(* investigator/graph.py is compiled with a checkpointer and               *)
(* interrupt_after = ["planner"].  A checkpoint holds the channel values   *)
(* of AgentState, the node to run next and the node that wrote last.  A    *)
(* run loads the thread's checkpoint when it begins, keeps its own copy    *)
(* and stores it after every node; an exception ends the run and stores    *)
(* nothing.  The server's handlers begin runs, translate the events of a   *)
(* run into client events and answer the caller.                           *)
(***************************************************************************)

brew == <<state, pc, runs, visited, dispatched, generated, last>>

(* Bounds of the model                                                     *)

MaxCalls == 3       \* client calls made on the server

(* Program constants                                                       *)

IntentMaxShortWords == 3

-----------------------------------------------------------------------------
(* Feedback texts and their classification                                 *)

FbEmpty == <<>>
FbOk == <<"o", "k">>
FbApproved == <<"A", "p", "p", "r", "o", "v", "e", "d">>
FbAddCompetitor == <<"a", "d", "d", " ", "c", "o", "m", "p", "e", "t", "i", "t", "o", "r", " ", "Y">>
FbLooksGood == <<"l", "o", "o", "k", "s", " ", "g", "o", "o", "d">>
FbRemoveTask == <<"r", "e", "m", "o", "v", "e", " ", "t", "a", "s", "k", " ", "2">>
FbCoverPricing == <<"p", "l", "e", "a", "s", "e", " ", "c", "o", "v", "e", "r", " ", "p", "r", "i", "c", "i", "n", "g", " ", "t", "o", "o">>

\* the feedback texts the model's callers send, and all it classifies
FeedbackTexts == {FbApproved, FbAddCompetitor, FbLooksGood}

ClassifiedTexts ==
    {FbEmpty, FbOk, FbApproved, FbAddCompetitor, FbLooksGood, FbRemoveTask,
     FbCoverPricing}

\* should_continue.approval_keywords
approval_keywords ==
    { <<"a", "p", "p", "r", "o", "v", "e">>,
      <<"a", "p", "p", "r", "o", "v", "e", "d">>,
      <<"o", "k">>,
      <<"o", "k", "a", "y">>,
      <<"y", "e", "s">>,
      <<"g", "o">>,
      <<"p", "r", "o", "c", "e", "e", "d">>,
      <<>> }

APPROVAL_KEYWORDS ==
    { <<"a", "p", "p", "r", "o", "v", "e">>,
      <<"a", "p", "p", "r", "o", "v", "e", "d">>,
      <<"o", "k">>,
      <<"o", "k", "a", "y">>,
      <<"y", "e", "s">>,
      <<"g", "o">>,
      <<"p", "r", "o", "c", "e", "e", "d">> }

FEEDBACK_HINTS ==
    { <<"f", "e", "e", "d", "b", "a", "c", "k">>,
      <<"m", "o", "d", "i", "f", "y">>,
      <<"c", "h", "a", "n", "g", "e">>,
      <<"a", "d", "j", "u", "s", "t">>,
      <<"i", "m", "p", "r", "o", "v", "e">>,
      <<"e", "x", "p", "a", "n", "d">>,
      <<"r", "e", "v", "i", "s", "e">>,
      <<"a", "d", "d">>,
      <<"f", "o", "c", "u", "s">> }

\* detect_investigator_intent(feedback_text): Absent is None
detect_investigator_intent(feedback_text) ==
    IF feedback_text = Absent \/ feedback_text[1] = <<>>
    THEN Absent
    ELSE LET text == strip(lower(feedback_text[1]))
         IN IF text = <<>> THEN Absent
            ELSE IF text \in APPROVAL_KEYWORDS THEN <<"approve">>
            ELSE IF \E hint \in FEEDBACK_HINTS : Contains(hint, text)
                 THEN <<"feedback">>
            ELSE IF Len(split(text)) > IntentMaxShortWords THEN <<"feedback">>
            ELSE Absent

DetectedIntentOf == [text \in ClassifiedTexts |-> detect_investigator_intent(<<text>>)]

\* the routing function of the planner's conditional edge
should_continue(view) ==
    LET feedback == strip(lower(Get(view, "user_feedback", <<>>)))
    IN IF feedback = <<>> \/ feedback \in approval_keywords
       THEN "executor"
       ELSE "planner"

-----------------------------------------------------------------------------
(* AgentState, plans and the outcomes of the external calls                *)

AgentStateKeys ==
    {"topic", "research_plan", "user_feedback", "gathered_data", "final_report",
     "messages", "model_name", "thinking_enabled"}

InvNodes == {"planner", "executor", "reporter"}

\* a faulty variant of interrupt_after: the graph compiled without the
\* interrupt
interrupt_after_nothing == {}

\* builder.compile(checkpointer=checkpointer, interrupt_after=["planner"])
interrupt_after == {"planner"}

TopicSeo == <<"s", "e", "o">>
TopicNone == <<"N", "o", "n", "e">>

ToolNames ==
    {"tavily_search", "scrape_competitor_page", "get_google_trends",
     "get_autocomplete_suggestions"}

\* the i-th task of the plans the planner's model call writes
PlanTask(i) ==
    CASE i = 1 -> [name |-> "Scrape competitor", goal |-> "read pricing page",
                   tool_hint |-> "scrape_competitor_page",
                   tool_args |-> [url |-> "https://plan.example"]]
      [] i = 2 -> [name |-> "Search market", goal |-> "find market size",
                   tool_hint |-> "tavily_search",
                   tool_args |-> [query |-> <<"m", "a", "r", "k", "e", "t", " ", "s", "i", "z", "e">>]]
      [] OTHER -> [name |-> "Trends", goal |-> "find trends",
                   tool_hint |-> "get_google_trends",
                   tool_args |-> [keywords |-> "seo"]]

ResearchPlan(n) == [tasks |-> [i \in 1..n |-> PlanTask(i)]]

ModelPlans == { ResearchPlan(2) }

\* the plan of the except branch of planner_node
FallbackPlan(topic) ==
    [tasks |-> << [name |-> "General Search", goal |-> <<"Research", topic>>,
                   tool_hint |-> "tavily_search",
                   tool_args |-> [query |-> topic]] >>]

\* what the planner's two external calls do: the scout search returns or
\* raises; the model call raises, or returns a text that json.loads parses
\* to a plan or rejects
PlannerNodeOutcomes ==
    { [scout |-> "ok", llm |-> l] :
        l \in { [kind |-> "json", plan |-> p] : p \in ModelPlans }
              \cup { [kind |-> "raise"] } }
      \cup { [scout |-> "raise", llm |-> [kind |-> "garbage"]] }

\* what the model does with one task of the executor: it requests its tool
\* (the tool returns or raises; the same call may be requested twice), it
\* answers in text, or the model call raises
TaskKinds == {"call_ok", "call_twice", "text", "llm_raise"}

\* an outcome of the executor: the first task goes as `kind`, every other
\* task has its tool called once and the tool returns
ExecutorOutcomes(tasks) == { [special |-> 1, kind |-> k] : k \in TaskKinds }

ReporterOutcomes == { [kind |-> "text", text |-> "report"], [kind |-> "raise"] }

-----------------------------------------------------------------------------
(* The events a run yields to astream_events                               *)

on_chat_model_stream(node, content) ==
    [event |-> "on_chat_model_stream", name |-> "ChatOpenAI", node |-> node,
     data |-> content]

on_tool_start(node, tool, input) ==
    [event |-> "on_tool_start", name |-> tool, node |-> node, data |-> input]

on_tool_end(node, tool) ==
    [event |-> "on_tool_end", name |-> tool, node |-> node, data |-> ""]

on_chain_end(node, output) ==
    [event |-> "on_chain_end", name |-> node, node |-> node, data |-> output]

\* tool_input.get("query", tool_input.get("url", tool_input.get("keywords", "")))
input_str(tool_input) ==
    IF "query" \in DOMAIN tool_input THEN tool_input.query
    ELSE IF "url" \in DOMAIN tool_input THEN tool_input.url
    ELSE IF "keywords" \in DOMAIN tool_input THEN tool_input.keywords
    ELSE ""

RECURSIVE Concat(_)
Concat(seqs) == IF seqs = <<>> THEN <<>> ELSE Head(seqs) \o Concat(Tail(seqs))

-----------------------------------------------------------------------------
(* The nodes                                                               *)

scout_query(topic) == <<"top 5 companies for", topic>>

planner_node(view, outcome) ==
    LET topic == Get(view, "topic", TopicNone)
        plan == IF outcome.llm.kind = "json"
                THEN outcome.llm.plan
                ELSE FallbackPlan(topic)
    IN IF outcome.llm.kind = "raise"
       THEN Raise("APIError")
       ELSE Return([research_plan |-> plan,
                    messages |-> <<outcome.llm>>,
                    user_feedback |-> <<>>])

\* the events of a planner step: the scout search, the streamed model text
planner_node_events(view, outcome) ==
    LET topic == Get(view, "topic", TopicNone)
    IN << on_tool_start("planner", "tavily_search", [query |-> scout_query(topic)]) >>
       \o (IF outcome.scout = "ok"
           THEN << on_tool_end("planner", "tavily_search") >> ELSE <<>>)
       \o (IF outcome.llm.kind = "raise"
           THEN <<>>
           ELSE << on_chat_model_stream("planner", "plan text"),
                   on_chain_end("planner", "research_plan") >>)

\* the arguments the model proposes for a tool
LlmArgs(tool) ==
    CASE tool = "scrape_competitor_page" -> [url |-> "https://llm.example"]
      [] tool = "tavily_search" -> [query |-> <<"l", "l", "m", " ", "q", "u", "e", "r", "y">>]
      [] OTHER -> [keywords |-> "llm keywords"]

\* response.tool_calls for a task: each call with what the tool then does
tool_calls(task, kind) ==
    LET call(raises) == [name |-> task.tool_hint, args |-> LlmArgs(task.tool_hint),
                         raises |-> raises]
    IN CASE kind = "call_ok" -> << call(FALSE) >>
         [] kind = "call_twice" -> << call(TRUE), call(FALSE) >>
         [] OTHER -> <<>>

\* Smart Arg Merging
final_args(tool_name, llm_args, plan_args) ==
    IF tool_name = "scrape_competitor_page" /\ "url" \in DOMAIN plan_args
    THEN [llm_args EXCEPT !.url = plan_args.url]
    ELSE llm_args

TaskKindOf(outcome, i) == IF outcome.special = i THEN outcome.kind ELSE "call_ok"

\* task_result of one task: one piece per tool call, or the model's text
task_result(task, kind) ==
    IF kind = "text"
    THEN << <<"Analysis", "analysis text">> >>
    ELSE LET requested == tool_calls(task, kind)
         IN [c \in 1..Len(requested) |->
                IF requested[c].raises
                THEN <<"Error executing", requested[c].name>>
                ELSE <<"Tool Output from", requested[c].name,
                       final_args(requested[c].name, requested[c].args, task.tool_args)>>]

\* the tasks of the stored plan: state.get("research_plan", {}).get("tasks", [])
plan_tasks(view) ==
    LET plan == Get(view, "research_plan", [none |-> 0])
    IN IF "tasks" \in DOMAIN plan THEN plan.tasks ELSE <<>>

\* the number of the first task whose model call raises (0: none)
FirstRaise(tasks, outcome) ==
    IF outcome.special \in 1..Len(tasks) /\ outcome.kind = "llm_raise"
    THEN outcome.special ELSE 0

\* a faulty variant of executor_node: the exception of a tool is not caught
executor_node_uncaught(view, outcome) ==
    LET tasks == plan_tasks(view)
        raising == { i \in DOMAIN tasks :
                       \E c \in DOMAIN tool_calls(tasks[i], TaskKindOf(outcome, i)) :
                          tool_calls(tasks[i], TaskKindOf(outcome, i))[c].raises }
    IN IF FirstRaise(tasks, outcome) # 0
       THEN Raise("APIError")
       ELSE IF raising # {}
       THEN Raise("ToolException")
       ELSE Return([gathered_data |->
                       [i \in 1..Len(tasks) |->
                           [task |-> tasks[i].name, goal |-> tasks[i].goal,
                            result |-> task_result(tasks[i], TaskKindOf(outcome, i))]]])

\* executor_node: one entry of gathered_data_log per task, in the order of
\* the plan; the exception of a tool is caught where the tool is invoked and
\* its text is put in the task's result
executor_node(view, outcome) ==
    LET tasks == plan_tasks(view)
    IN IF FirstRaise(tasks, outcome) # 0
       THEN Raise("APIError")
       ELSE Return([gathered_data |->
                       [i \in 1..Len(tasks) |->
                           [task |-> tasks[i].name, goal |-> tasks[i].goal,
                            result |-> task_result(tasks[i], TaskKindOf(outcome, i))]]])

\* the events of one task of the executor
task_events(task, kind) ==
    IF kind = "text"
    THEN << on_chat_model_stream("executor", "analysis text") >>
    ELSE LET requested == tool_calls(task, kind)
         IN Concat([c \in 1..Len(requested) |->
                << on_tool_start("executor", requested[c].name,
                       final_args(requested[c].name, requested[c].args, task.tool_args)) >>
                \o (IF requested[c].raises
                    THEN <<>>
                    ELSE << on_tool_end("executor", requested[c].name) >>)])

executor_node_events(view, outcome) ==
    LET tasks == plan_tasks(view)
        stop == FirstRaise(tasks, outcome)
        done == IF stop = 0 THEN Len(tasks) ELSE stop - 1
    IN Concat([i \in 1..done |-> task_events(tasks[i], TaskKindOf(outcome, i))])
       \o (IF stop = 0 THEN << on_chain_end("executor", "gathered_data") >> ELSE <<>>)

reporter_node(view, outcome) ==
    IF outcome.kind = "raise"
    THEN Raise("APIError")
    ELSE Return([final_report |-> outcome.text])

reporter_node_events(view, outcome) ==
    IF outcome.kind = "raise"
    THEN <<>>
    ELSE << on_chat_model_stream("reporter", outcome.text),
            on_chain_end("reporter", [final_report |-> outcome.text]) >>

-----------------------------------------------------------------------------
(* The compiled graph: checkpoints, state updates, edges                   *)

EmptyValues == [k \in AgentStateKeys |-> Absent]

\* what aget_state returns for a thread that has no checkpoint
EmptyCheckpoint == [values |-> EmptyValues, next |-> "none", last |-> "none"]

\* a faulty variant of WriteChannels: the update replaces the state, a
\* channel it does not name is lost
WriteChannelsReplacing(values, update) ==
    [k \in AgentStateKeys |->
        IF k \in DOMAIN update THEN <<update[k]>> ELSE Absent]

\* every channel of AgentState holds the last value written
WriteChannels(values, update) ==
    [k \in AgentStateKeys |->
        IF k \in DOMAIN update THEN <<update[k]>> ELSE values[k]]

\* the edges of build_investigator_graph
InvSuccessor(node, values) ==
    CASE node = "__start__" -> "planner"
      [] node = "planner" -> should_continue(values)
      [] node = "executor" -> "reporter"
      [] OTHER -> "END"

InvNode(node, view, outcome) ==
    CASE node = "planner" -> planner_node(view, outcome)
      [] node = "executor" -> executor_node(view, outcome)
      [] OTHER -> reporter_node(view, outcome)

InvNodeEvents(node, view, outcome) ==
    CASE node = "planner" -> planner_node_events(view, outcome)
      [] node = "executor" -> executor_node_events(view, outcome)
      [] OTHER -> reporter_node_events(view, outcome)

InvOutcomes(node, view) ==
    CASE node = "planner" -> PlannerNodeOutcomes
      [] node = "executor" -> ExecutorOutcomes(plan_tasks(view))
      [] OTHER -> ReporterOutcomes

\* graph.aget_state(config)
aget_state(thread_id) ==
    IF thread_id \in DOMAIN threads THEN threads[thread_id] ELSE EmptyCheckpoint

\* `not state` for the StateSnapshot aget_state returns: a named tuple with
\* fields, which is never falsy
SnapshotIsFalsy(snapshot) == FALSE

\* a faulty variant of aupdate_state: the update is written as an input of
\* the graph, so that the thread goes on at the entry
aupdate_state_as_start(checkpoint, update, as_node) ==
    [values |-> WriteChannels(checkpoint.values, update),
     next |-> InvSuccessor("__start__", checkpoint.values), last |-> "__start__"]

\* graph.aupdate_state(config, update, as_node): the update is written as if
\* as_node had returned it and as_node's edges are followed; without as_node
\* the node that wrote last is taken, and the graph's entry when none did
aupdate_state(checkpoint, update, as_node) ==
    LET node == IF as_node # Absent THEN as_node[1]
                ELSE IF checkpoint.last = "none" THEN "__start__"
                ELSE checkpoint.last
        values == WriteChannels(checkpoint.values, update)
    IN [values |-> values, next |-> InvSuccessor(node, values), last |-> node]

\* the first checkpoint of a run that is given an input: the input is
\* written and the entry edge is followed
InputCheckpoint(checkpoint, input) ==
    [values |-> WriteChannels(checkpoint.values, input),
     next |-> "planner", last |-> "__start__"]

-----------------------------------------------------------------------------
(* Client events and the translation of a run's events                     *)

\* one JSON event of a client stream; `node` records the node whose call
\* produced it ("" for an event the handler itself writes)
ClientEvent(type, content, node) == [type |-> type, content |-> content, node |-> node]

\* chunk_text_for_stream, for a text of one short paragraph
chunk_text_for_stream(text) == IF text = "" THEN <<>> ELSE <<text>>

\* run_investigator_stream: what is put on the thread's queue for one event
translate_queue(ev) ==
    CASE ev.event = "on_chat_model_stream" ->
            IF ev.data # "" THEN << ClientEvent("token", ev.data, ev.node) >> ELSE <<>>
      [] ev.event = "on_tool_start" ->
            << ClientEvent("status", <<"Running", ev.name, input_str(ev.data)>>, ev.node) >>
      [] ev.event = "on_tool_end" ->
            << ClientEvent("status", <<ev.name, "completed">>, ev.node) >>
      [] OTHER ->
            IF ev.name = "reporter" /\ "final_report" \in DOMAIN ev.data
            THEN << ClientEvent("report", ev.data.final_report, ev.node) >>
            ELSE IF ev.name = "executor"
            THEN << ClientEvent("status", <<"Data gathering complete">>, ev.node) >>
            ELSE IF ev.name = "planner"
            THEN << ClientEvent("status", <<"Research plan generated">>, ev.node) >>
            ELSE <<>>

\* handle_investigator_approval_stream.event_generator: what is yielded for
\* one event of the run
translate_chat(ev) ==
    CASE ev.event = "on_chat_model_stream" ->
            IF ev.data # "" THEN << ClientEvent("content", ev.data, ev.node) >> ELSE <<>>
      [] ev.event = "on_tool_start" ->
            << ClientEvent("investigator_status",
                           <<"Running", ev.name, input_str(ev.data)>>, ev.node) >>
      [] ev.event = "on_tool_end" ->
            << ClientEvent("investigator_status", <<ev.name, "completed">>, ev.node) >>
      [] OTHER ->
            IF ev.name = "reporter" /\ "final_report" \in DOMAIN ev.data
            THEN LET chunks == chunk_text_for_stream(ev.data.final_report)
                     report_chunks == IF chunks = <<>> THEN << "" >> ELSE chunks
                 IN [i \in 1..Len(report_chunks) |->
                        ClientEvent("investigator_report", report_chunks[i], ev.node)]
            ELSE IF ev.name = "executor"
            THEN << ClientEvent("investigator_status",
                                <<"Data gathering complete">>, ev.node) >>
            ELSE <<>>

\* chat_endpoint.event_generator: what is yielded for one event of the agent
translate_brew(ev) ==
    CASE ev.event = "on_chat_model_stream" ->
            IF ev.data # "" THEN << ClientEvent("content", ev.data, ev.node) >> ELSE <<>>
      [] ev.event = "on_chain_end" /\ ev.name = "agent" ->
            << ClientEvent("content", ev.data, ev.node) >>
      [] OTHER -> <<>>

\* what the deep agent of the chat mode does with a request: its events
\* (the master agent's and its sub-agents' model calls), then it ends or raises
BrewChatOutcomes ==
    { [events |-> << on_chat_model_stream("research-agent", "notes"),
                     on_chat_model_stream("master", "answer"),
                     [event |-> "on_chain_end", name |-> "agent", node |-> "master",
                      data |-> "answer"] >>, raises |-> FALSE],
      [events |-> << on_chat_model_stream("research-agent", "notes") >>,
       raises |-> TRUE] }

-----------------------------------------------------------------------------
(* The server: requests, runs, streams                                     *)

\* a faulty variant of Put: one store for all the threads
PutForAll(f, key, value) ==
    [x \in DOMAIN f \cup {key} |-> value]

\* the store or the queue table with the entry of `key` set, the other
\* entries as they are: checkpoints and queues are kept by thread id
Put(f, key, value) ==
    [x \in DOMAIN f \cup {key} |-> IF x = key THEN value ELSE f[x]]

\* the sequence without its i-th element
Without(seq, i) == SubSeq(seq, 1, i - 1) \o SubSeq(seq, i + 1, Len(seq))

-----------------------------------------------------------------------------
(* A run, node by node                                                     *)

\* one step of a run that holds the checkpoint `local`: the node the
\* checkpoint names is run on the run's values; its update is kept and its
\* edge followed; the run stops after a node of interrupt_after, at END, and
\* when the node raises (nothing is then stored).  The result tells the
\* checkpoint the run is left with, whether it is stored, the events yielded,
\* the nodes run and how the run goes on
StepOf(local, outcome) ==
    LET node == local.next
        res == InvNode(node, local.values, outcome)
        internal == InvNodeEvents(node, local.values, outcome)
        values == WriteChannels(local.values, res.update)
        after == [values |-> values, next |-> InvSuccessor(node, values), last |-> node]
    IN IF node \notin InvNodes
       THEN [local |-> local, write |-> FALSE, internal |-> <<>>, ran |-> <<>>,
             status |-> "finished"]
       ELSE IF res.kind = "raise"
       THEN [local |-> local, write |-> FALSE, internal |-> internal, ran |-> <<node>>,
             status |-> "failed"]
       ELSE [local |-> after, write |-> TRUE, internal |-> internal, ran |-> <<node>>,
             status |-> IF node \in interrupt_after THEN "paused"
                        ELSE IF after.next = "END" THEN "finished"
                        ELSE "running"]

StepOutcomes(local) ==
    IF local.next \in InvNodes
    THEN InvOutcomes(local.next, local.values)
    ELSE {NoOutcome}

\* two steps in a row
ThenStep(first, second) ==
    [local |-> second.local, write |-> first.write \/ second.write,
     internal |-> first.internal \o second.internal,
     ran |-> first.ran \o second.ran, status |-> second.status]

\* a whole run from `begun`: the steps of StepOf until the run stops (the
\* longest run is executor, reporter)
WholeRuns(begun) ==
    UNION { IF StepOf(begun, o1).status # "running"
            THEN { StepOf(begun, o1) }
            ELSE { ThenStep(StepOf(begun, o1), StepOf(StepOf(begun, o1).local, o2)) :
                     o2 \in StepOutcomes(StepOf(begun, o1).local) } :
            o1 \in StepOutcomes(begun) }

\* the client events a handler makes of the events of a run
Translated(handler, internal) ==
    CASE handler = "run_investigator_stream" ->
            Concat([i \in 1..Len(internal) |-> translate_queue(internal[i])])
      [] handler = "handle_investigator_approval_stream" ->
            Concat([i \in 1..Len(internal) |-> translate_chat(internal[i])])
      [] OTHER -> <<>>

\* what a handler sends when its run has ended: `failed` tells whether an
\* exception ended it, `stored` is the thread's checkpoint at that moment
Closing(handler, thread_id, failed, stored) ==
    LET plan == Get(stored.values, "research_plan", [none |-> 0])
    IN CASE handler = "run_investigator_stream" ->
               IF failed THEN << ClientEvent("error", "APIError", "") >>
               ELSE << ClientEvent("complete", "", "") >>
         [] handler = "handle_investigator_approval_stream" ->
               IF failed THEN << ClientEvent("error", "APIError", "") >>
               ELSE << ClientEvent("investigator_complete", "Research complete!", "") >>
         [] handler \in {"handle_investigator_start_stream",
                         "handle_investigator_feedback_stream"} ->
               IF failed THEN << ClientEvent("error", "APIError", "") >>
               ELSE << ClientEvent("investigator_plan",
                                   [thread_id |-> thread_id, plan |-> plan], "") >>
         [] OTHER -> <<>>

\* a graph run begun by `handler` on `thread_id` from the checkpoint
\* `begun`; `before` is the thread's checkpoint when the call arrived.  Kept
\* for the record: whether the thread was then paused after its planner,
\* whether the run is a resume (its input is None), where it began, the
\* topic, the plan and the feedback it began with, whether the call is the
\* first after a restart of the process, and the nodes it ran; `written` is
\* what the call wrote to the thread before the run: the input of the run,
\* or the update of aupdate_state
Job(handler, thread_id, before, begun, resumed, written) ==
    [handler |-> handler, thread |-> thread_id,
     local |-> begun, resumed |-> resumed,
     interrupted |-> before.last = "planner",
     route |-> begun.next,
     topic |-> begun.values.topic,
     plan |-> begun.values.research_plan,
     feedback |-> Get(begun.values, "user_feedback", <<>>),
     recovered |-> response # <<>> /\ response[1].call = "restart",
     written |-> written,
     nodes |-> <<>>, status |-> "running"]

\* the job after the steps `run`
JobAfter(job, run) ==
    [job EXCEPT !.local = run.local, !.nodes = @ \o run.ran, !.status = run.status]

\* an event stream: the handler that writes it, its thread, its events
Stream(handler, thread_id, events) ==
    [handler |-> handler, thread |-> thread_id, events |-> events]

Topics == {TopicSeo}

\* the thread ids a caller may name: those issued so far and one never issued
NamedThreads == 0..uuids

StartInput(topic) ==
    [topic |-> topic, model_name |-> "gpt-4.1", thinking_enabled |-> FALSE]

\* the store after a run on thread_id that began from the stored `begun`
StoreAfter(thread_id, begun, run) ==
    Put(threads, thread_id, IF run.write THEN run.local ELSE begun)

\* a handler that awaits its run and then answers with a stream: the
\* stream opens with `opening`, carries the handler's translation of the
\* run's events and closes with the handler's last event
StreamedRun(handler, thread_id, before, begun, resumed, written, opening) ==
    \E run \in WholeRuns(begun) :
        LET failed == run.status = "failed"
            store == StoreAfter(thread_id, begun, run)
        IN /\ threads' = store
           /\ finished' = <<JobAfter(Job(handler, thread_id, before, begun, resumed,
                                              written), run)>>
           /\ closed' = <<Stream(handler, thread_id,
                                 << opening >> \o Translated(handler, run.internal)
                                    \o Closing(handler, thread_id, failed, store[thread_id]))>>
           /\ UNCHANGED <<jobs, streams>>

\* POST /start
start_research(topic) ==
    /\ calls < MaxCalls
    /\ LET thread_id == uuids + 1
           before == aget_state(thread_id)
           begun == InputCheckpoint(before, StartInput(topic))
       IN \E run \in WholeRuns(begun) :
             LET store == StoreAfter(thread_id, begun, run)
             IN /\ threads' = store
                /\ finished' = <<JobAfter(Job("start_research", thread_id, before, begun,
                                              FALSE, StartInput(topic)), run)>>
                /\ response' =
                       IF run.status = "failed"
                       THEN <<[call |-> "start", thread |-> thread_id, status |-> "500"]>>
                       ELSE <<[call |-> "start", thread |-> thread_id, status |-> "200",
                               research_plan |->
                                 Get(store[thread_id].values, "research_plan", [none |-> 0])]>>
    /\ uuids' = uuids + 1
    /\ calls' = calls + 1
    /\ closed' = <<>>
    /\ UNCHANGED <<queues, jobs, streams, brew>>

\* POST /approve: the feedback is written to the thread and the run is left
\* to a background task
approve_plan(thread_id, feedback) ==
    /\ calls < MaxCalls
    /\ LET snapshot == aget_state(thread_id)
       IN IF SnapshotIsFalsy(snapshot)
          THEN /\ response' = <<[call |-> "approve", thread |-> thread_id,
                                  status |-> "404"]>>
               /\ UNCHANGED <<threads, queues, jobs>>
          ELSE LET update == [user_feedback |-> feedback]
                   updated == aupdate_state(snapshot, update, Absent)
               IN /\ threads' = Put(threads, thread_id, updated)
                  /\ queues' = IF thread_id \in DOMAIN queues
                               THEN queues ELSE Put(queues, thread_id, <<>>)
                  /\ jobs' = Append(jobs, Job("run_investigator_stream", thread_id,
                                              snapshot, updated, TRUE, update))
                  /\ response' = <<[call |-> "approve", thread |-> thread_id,
                                     status |-> "approved"]>>
    /\ calls' = calls + 1
    /\ closed' = <<>> /\ finished' = <<>>
    /\ UNCHANGED <<streams, uuids, brew>>

\* run_investigator_stream: one step of the background run; its events are
\* put on the thread's queue, and a last event when the run has ended
run_investigator_stream(j) ==
    /\ j \in DOMAIN jobs
    /\ jobs[j].handler = "run_investigator_stream"
    /\ jobs[j].status = "running"
    /\ \E outcome \in StepOutcomes(jobs[j].local) :
          LET job == jobs[j]
              run == StepOf(job.local, outcome)
              store == IF run.write THEN Put(threads, job.thread, run.local) ELSE threads
              events == Translated(job.handler, run.internal)
                           \o (IF run.status = "running"
                               THEN <<>>
                               ELSE Closing(job.handler, job.thread, run.status = "failed",
                                            store[job.thread]))
          IN IF job.thread \notin DOMAIN queues
             THEN \* no queue for the thread: the task returns at once
                  /\ jobs' = Without(jobs, j)
                  /\ finished' = <<[job EXCEPT !.status = "skipped"]>>
                  /\ UNCHANGED <<threads, queues>>
             ELSE /\ threads' = store
                  /\ jobs' = IF run.status = "running"
                             THEN [jobs EXCEPT ![j] = JobAfter(job, run)]
                             ELSE Without(jobs, j)
                  /\ finished' = IF run.status = "running"
                                 THEN <<>> ELSE <<JobAfter(job, run)>>
                  /\ queues' = [queues EXCEPT ![job.thread] = @ \o events]
    /\ closed' = <<>> /\ response' = <<>>
    /\ UNCHANGED <<streams, uuids, calls, brew>>

\* GET /stream/{thread_id}: the consumer is connected to the thread's queue
stream_events(thread_id) ==
    /\ calls < MaxCalls
    /\ queues' = IF thread_id \in DOMAIN queues THEN queues ELSE Put(queues, thread_id, <<>>)
    /\ streams' = Append(streams, Stream("stream_events", thread_id, <<>>))
    /\ calls' = calls + 1
    /\ closed' = <<>> /\ finished' = <<>> /\ response' = <<>>
    /\ UNCHANGED <<threads, jobs, uuids, brew>>

\* the events a consumer reads before it has to wait again: everything in the
\* queue up to and including the first complete or error event
RECURSIVE ReadUntilTerminal(_)
ReadUntilTerminal(queue) ==
    IF queue = <<>> THEN <<>>
    ELSE IF Head(queue).type \in {"complete", "error"} THEN << Head(queue) >>
    ELSE << Head(queue) >> \o ReadUntilTerminal(Tail(queue))

\* stream_events.event_generator: the turns of the loop the queue allows
\* without waiting; the consumer leaves the loop at a complete or error event
Deliver(s) ==
    /\ s \in DOMAIN streams
    /\ streams[s].handler = "stream_events"
    /\ streams[s].thread \in DOMAIN queues
    /\ queues[streams[s].thread] # <<>>
    /\ LET read == ReadUntilTerminal(queues[streams[s].thread])
           data == read[Len(read)]
           delivered == [streams[s] EXCEPT !.events = @ \o read]
       IN /\ IF data.type \in {"complete", "error"}
             THEN /\ streams' = Without(streams, s)
                  /\ closed' = <<delivered>>
             ELSE /\ streams' = [streams EXCEPT ![s] = delivered]
                  /\ closed' = <<>>
          /\ queues' = [queues EXCEPT ![streams[s].thread] =
                            SubSeq(@, Len(read) + 1, Len(@))]
    /\ finished' = <<>> /\ response' = <<>>
    /\ UNCHANGED <<threads, jobs, uuids, calls, brew>>

\* handle_investigator_start_stream
handle_investigator_start_stream(topic) ==
    LET thread_id == uuids + 1
        before == aget_state(thread_id)
    IN /\ StreamedRun("handle_investigator_start_stream", thread_id, before,
                      InputCheckpoint(before, StartInput(topic)), FALSE, StartInput(topic),
                      ClientEvent("investigator_start", topic, ""))
       /\ uuids' = uuids + 1
       /\ response' = <<>>
       /\ UNCHANGED queues

\* a handler that answers with a stream of one error event
error_gen(handler, thread_id, content) ==
    /\ closed' = <<Stream(handler, thread_id, << ClientEvent("error", content, "") >>)>>
    /\ finished' = <<>> /\ response' = <<>>
    /\ UNCHANGED <<threads, queues, jobs, streams, uuids>>

\* handle_investigator_feedback_stream
handle_investigator_feedback_stream(thread_id, feedback) ==
    LET snapshot == aget_state(thread_id)
        stored_topic == Get(snapshot.values, "topic", <<>>)
    IN IF SnapshotIsFalsy(snapshot)
       THEN error_gen("handle_investigator_feedback_stream", thread_id,
                       "Investigator thread not found")
       ELSE IF stored_topic = <<>>
       THEN error_gen("handle_investigator_feedback_stream", thread_id,
                      "Investigator thread state missing topic")
       ELSE LET initial_state ==
                    [topic |-> stored_topic,
                     model_name |-> Get(snapshot.values, "model_name", "gpt-4.1"),
                     thinking_enabled |-> Get(snapshot.values, "thinking_enabled", FALSE),
                     user_feedback |-> feedback]
            IN /\ StreamedRun("handle_investigator_feedback_stream", thread_id, snapshot,
                              InputCheckpoint(snapshot, initial_state), FALSE,
                              initial_state,
                              ClientEvent("investigator_status", <<"Feedback received">>, ""))
               /\ response' = <<>>
               /\ UNCHANGED <<queues, uuids>>

\* handle_investigator_approval_stream
handle_investigator_approval_stream(thread_id, feedback) ==
    LET snapshot == aget_state(thread_id)
        stored_topic == Get(snapshot.values, "topic", <<>>)
    IN IF SnapshotIsFalsy(snapshot)
       THEN error_gen("handle_investigator_approval_stream", thread_id,
                       "Investigator thread not found")
       ELSE IF stored_topic = <<>>
       THEN error_gen("handle_investigator_approval_stream", thread_id,
                      "Investigator thread state is invalid (missing topic)")
       ELSE LET update == [user_feedback |-> feedback, topic |-> stored_topic]
            IN /\ StreamedRun("handle_investigator_approval_stream", thread_id, snapshot,
                              aupdate_state(snapshot, update, <<"planner">>), TRUE, update,
                              ClientEvent("investigator_status", <<"Plan approved">>, ""))
               /\ response' = <<>>
               /\ UNCHANGED <<queues, uuids>>

\* chat_endpoint.event_generator: the chat mode's deep agent, streamed
event_generator(outcome) ==
    /\ closed' = <<Stream("chat_endpoint", 0,
                  Concat([i \in 1..Len(outcome.events) |-> translate_brew(outcome.events[i])])
                    \o (IF outcome.raises
                        THEN << ClientEvent("error", "Exception", "") >> ELSE <<>>))>>
    /\ finished' = <<>> /\ response' = <<>>
    /\ UNCHANGED <<threads, queues, jobs, streams, uuids>>

\* the bodies of POST /api/chat
MsgInvestigate == <<"i", "n", "v", "e", "s", "t", "i", "g", "a", "t", "e", ":", " ", "s", "e", "o">>
MsgSeo == <<"s", "e", "o">>
PrefixInvestigate == <<"i", "n", "v", "e", "s", "t", "i", "g", "a", "t", "e", ":">>
PrefixSlashInvestigate == <<"/", "i", "n", "v", "e", "s", "t", "i", "g", "a", "t", "e">>

StartsWith(text, prefix) ==
    Len(text) >= Len(prefix) /\ SubSeq(text, 1, Len(prefix)) = prefix

\* the request bodies: a message in either mode without a thread, or a
\* resume of a named thread with or without feedback and intent
ChatRequests ==
    { [messages |-> <<m>>, mode |-> md, investigator_thread |-> Absent,
       investigator_feedback |-> Absent, investigator_intent |-> Absent] :
        m \in {MsgInvestigate, MsgSeo},
        md \in {Absent, <<"investigator">>} }
    \cup
    { [messages |-> <<MsgSeo>>, mode |-> Absent, investigator_thread |-> <<n>>,
       investigator_feedback |-> f, investigator_intent |-> i] :
        n \in NamedThreads,
        f \in {Absent} \cup { <<x>> : x \in FeedbackTexts \ {FbApproved} },
        i \in {Absent, <<"approve">>} }

\* the handler chat_endpoint hands the request to, with its arguments
Dispatch(data) ==
    LET user_input == Get(data, "messages", <<>>)
        mode == Get(data, "mode", "brew")
        investigator_thread == data.investigator_thread
        investigator_feedback == Get(data, "investigator_feedback", FbApproved)
        effective_intent ==
            IF data.investigator_intent # Absent
            THEN data.investigator_intent
            ELSE DetectedIntentOf[investigator_feedback]
        has_plan ==
            /\ investigator_thread # Absent
            /\ Has(aget_state(investigator_thread[1]).values, "research_plan")
        lower_input == strip(lower(user_input))
        investigator_topic ==
            IF StartsWith(lower_input, PrefixInvestigate)
            THEN <<strip(SubSeq(user_input, Len(PrefixInvestigate) + 1, Len(user_input)))>>
            ELSE IF StartsWith(lower_input, PrefixSlashInvestigate)
            THEN <<strip(SubSeq(user_input, Len(PrefixSlashInvestigate) + 1, Len(user_input)))>>
            ELSE IF mode = "investigator" THEN <<user_input>>
            ELSE Absent
    IN IF has_plan
       THEN [to |-> IF effective_intent = <<"feedback">> THEN "feedback" ELSE "approval",
             thread |-> investigator_thread[1], feedback |-> investigator_feedback]
       ELSE IF user_input # <<>> /\ investigator_topic # Absent /\ investigator_topic[1] # <<>>
       THEN [to |-> "start", topic |-> investigator_topic[1]]
       ELSE [to |-> "brew"]

\* POST /api/chat
chat_endpoint(data) ==
    /\ calls < MaxCalls
    /\ calls' = calls + 1
    /\ UNCHANGED brew
    /\ LET target == Dispatch(data)
       IN \/ /\ target.to = "feedback"
             /\ handle_investigator_feedback_stream(target.thread, target.feedback)
          \/ /\ target.to = "approval"
             /\ handle_investigator_approval_stream(target.thread, target.feedback)
          \/ /\ target.to = "start"
             /\ handle_investigator_start_stream(target.topic)
          \/ /\ target.to = "brew"
             /\ \E outcome \in BrewChatOutcomes : event_generator(outcome)

\* the feedback texts sent to /approve
ApproveTexts == {FbApproved, FbAddCompetitor}

StartResearch == \E topic \in Topics : start_research(topic)

ApprovePlan ==
    \E thread_id \in NamedThreads, feedback \in ApproveTexts :
        approve_plan(thread_id, feedback)

StreamEvents == \E thread_id \in NamedThreads : stream_events(thread_id)

ChatEndpoint == \E data \in ChatRequests : chat_endpoint(data)

DeliverEvent == \E s \in DOMAIN streams : Deliver(s)

BackgroundRun == \E j \in DOMAIN jobs : run_investigator_stream(j)

NextServer ==
    \/ StartResearch
    \/ ApprovePlan
    \/ StreamEvents
    \/ ChatEndpoint
    \/ DeliverEvent
    \/ BackgroundRun

SpecServer == Init /\ [][NextServer]_vars

-----------------------------------------------------------------------------
(* The human-review workflow: properties                                   *)

\* the runs a state shows: the background runs in progress and the run the
\* last step ended
ShownRuns == { jobs[j] : j \in DOMAIN jobs } \cup { finished[i] : i \in DOMAIN finished }

\* C11: in every run of the investigator graph the planner is the last node
\* that runs: when it has completed the run is paused with the planner's
\* state stored as the thread's checkpoint, and a run in which the executor
\* runs is a resume that an external call began, with no planner step in it.
C11_PlannerIsFollowedByPause ==
    \A job \in ShownRuns :
        /\ \A i \in DOMAIN job.nodes :
              job.nodes[i] = "planner" =>
                 /\ i = Len(job.nodes)
                 /\ job.status \in {"paused", "failed"}
                 /\ job.status = "paused" =>
                       /\ threads[job.thread] = job.local
                       /\ job.local.last = "planner"
        /\ (\E i \in DOMAIN job.nodes : job.nodes[i] = "executor") =>
              /\ job.resumed
              /\ job.nodes[1] = "executor"

\* a planner step has completed and its run is paused on the stored plan
C11_Witness ==
    /\ finished # <<>>
    /\ finished[1].nodes = <<"planner">>
    /\ finished[1].status = "paused"
    /\ Has(threads[finished[1].thread].values, "research_plan")
    /\ threads[finished[1].thread].next = "executor"

\* the feedback texts should_continue takes for an approval
ApprovalClassified(feedback) == strip(lower(feedback)) \in approval_keywords

\* C12: a resume of a thread that is paused after its planner, with feedback
\* classified as approval, begins at the executor, runs no planner and leaves
\* research_plan as it was; with feedback classified as revision it begins at
\* the planner, which runs exactly once, and the run is paused after it
\* (unless the planner raised).
C12_ResumeFollowsFeedback ==
    \A job \in ShownRuns :
        (job.resumed /\ job.interrupted) =>
            IF ApprovalClassified(job.feedback)
            THEN /\ job.route = "executor"
                 /\ \A i \in DOMAIN job.nodes : job.nodes[i] # "planner"
                 /\ job.nodes # <<>> => job.nodes[1] = "executor"
                 /\ job.local.values.research_plan = job.plan
            ELSE /\ job.route = "planner"
                 /\ job.nodes \in {<<>>, <<"planner">>}
                 /\ job.nodes = <<>> <=> job.status = "running"
                 /\ job.nodes # <<>> => job.status \in {"paused", "failed"}

\* both resumes have happened: a resume with a revision has run the planner
\* again and is paused, while an approved resume has begun at the executor
C12_Witness ==
    /\ finished # <<>>
    /\ finished[1].resumed /\ finished[1].interrupted
    /\ ~ApprovalClassified(finished[1].feedback)
    /\ finished[1].nodes = <<"planner">>
    /\ finished[1].status = "paused"
    /\ \E j \in DOMAIN jobs :
          /\ jobs[j].resumed /\ jobs[j].interrupted
          /\ ApprovalClassified(jobs[j].feedback)
          /\ jobs[j].nodes = <<"executor">>

\* a revision that has been planned: the run the last step ended began on a
\* thread paused after its planner, with feedback classified as revision,
\* and its planner has returned
RevisionPlanned(job) ==
    /\ job.interrupted
    /\ ~ApprovalClassified(job.feedback)
    /\ job.nodes = <<"planner">>
    /\ job.status = "paused"

\* the feedback asks for something to be removed
RequestsRemoval(feedback) ==
    \E i \in 1..Len(feedback) :
        i + 5 <= Len(feedback) /\ SubSeq(lower(feedback), i, i + 5) = <<"r", "e", "m", "o", "v", "e">>

\* C13: when a thread paused after its planner is resumed with revision
\* feedback that does not ask for a removal, the plan the planner returns
\* contains every task of the previous plan, is at least as long, and topic
\* is unchanged.
C13_RevisedPlanKeepsTasks ==
    \A i \in DOMAIN finished :
        (RevisionPlanned(finished[i]) /\ ~RequestsRemoval(finished[i].feedback)) =>
            LET old == finished[i].plan[1].tasks
                new == finished[i].local.values.research_plan[1].tasks
            IN /\ \A k \in DOMAIN old : \E m \in DOMAIN new : new[m] = old[k]
               /\ Len(new) >= Len(old)
               /\ finished[i].local.values.topic = finished[i].topic

\* the planner has run on thread t
PlannerHasRun(t) == t \in DOMAIN threads /\ Has(threads[t].values, "research_plan")

LacksTopic(thread_id) == Get(aget_state(thread_id).values, "topic", <<>>) = <<>>

\* C15: a resume call on a thread that is unknown or has no stored topic is
\* answered with an error (404 by /approve, an error event by the chat
\* feedback and approval handlers), writes no state and starts no run.
C15_ResumeWithoutTopicIsRejected ==
    [][/\ (/\ response' # <<>>
           /\ response'[1].call = "approve"
           /\ LacksTopic(response'[1].thread)) =>
              /\ response'[1].status = "404"
              /\ threads' = threads
              /\ jobs' = jobs
       /\ (/\ closed' # <<>>
           /\ closed'[1].handler \in {"handle_investigator_feedback_stream",
                                      "handle_investigator_approval_stream"}
           /\ LacksTopic(closed'[1].thread)) =>
              /\ Len(closed'[1].events) = 1
              /\ closed'[1].events[1].type = "error"
              /\ threads' = threads
              /\ finished' = <<>>]_vars

\* the events that end a stream
TerminalTypes == {"complete", "error"}

\* C16: every event stream that has ended, whichever handler wrote it, has
\* exactly one terminal event (complete or error) and that event is its last.
C16_StreamEndsWithOneTerminalEvent ==
    \A s \in DOMAIN closed :
        LET events == closed[s].events
        IN /\ events # <<>>
           /\ events[Len(events)].type \in TerminalTypes
           /\ \A i \in 1..(Len(events) - 1) : events[i].type \notin TerminalTypes

\* the status events of the two translations
StatusTypes == {"status", "investigator_status"}

\* no two status events in a row with the same content, no worker_complete
\* event twice with the same content
NoRepeatedStatus(events) ==
    /\ \A i \in 1..(Len(events) - 1) :
          (events[i].type \in StatusTypes /\ events[i + 1].type \in StatusTypes) =>
              events[i].content # events[i + 1].content
    /\ \A i, k \in DOMAIN events :
          (/\ i # k
           /\ events[i].type = "worker_complete"
           /\ events[k].type = "worker_complete") =>
              events[i].content # events[k].content

\* C17: in the events written for one run (the stream of a chat handler, or
\* what a background run has put on its thread's queue when it ends) no two
\* consecutive status events have the same content and no worker_complete
\* event occurs twice for the same worker and task.
C17_NoRepeatedStatusEvents ==
    /\ \A s \in DOMAIN closed : NoRepeatedStatus(closed[s].events)
    /\ \A i \in DOMAIN finished :
          (finished[i].handler = "run_investigator_stream"
              /\ finished[i].thread \in DOMAIN queues) =>
                 NoRepeatedStatus(queues[finished[i].thread])

\* the nodes whose model output is the final output: the investigator's
\* reporter, the chat mode's master agent
SynthesisNodes == {"reporter", "master"}

\* C18: every content event of a stream carries model output of the
\* synthesis or report phase, never of the planner, of a worker or sub-agent,
\* or of the executor.
C18_ContentOnlyFromSynthesis ==
    \A s \in DOMAIN closed :
        \A i \in DOMAIN closed[s].events :
            closed[s].events[i].type = "content" =>
                closed[s].events[i].node \in SynthesisNodes

\* C19: when a run of the human-review workflow has ended with a new plan,
\* the plan has been handed to the caller: /start answers with the stored
\* plan, and a run begun by /approve with a revision, on a thread paused after
\* its planner, has put a plan event with the stored plan on the thread's
\* queue, before its terminal event.
C19_PlanHandedToCaller ==
    \A i \in DOMAIN finished :
        LET job == finished[i]
            stored == threads[job.thread].values.research_plan
        IN (job.nodes = <<"planner">> /\ job.status = "paused") =>
              /\ job.handler = "start_research" =>
                    /\ response # <<>>
                    /\ response[1].status = "200"
                    /\ <<response[1].research_plan>> = stored
              /\ (job.handler = "run_investigator_stream" /\ job.interrupted) =>
                    \E k \in DOMAIN queues[job.thread] :
                        /\ queues[job.thread][k].type = "plan"
                        /\ <<queues[job.thread][k].content>> = stored
                        /\ k < Len(queues[job.thread])

\* the resume that a step has begun, if it has begun one: the run of the
\* chat approval handler, which the same step ends, or a new background run
BegunResume ==
    IF finished' # <<>> /\ finished'[1].handler = "handle_investigator_approval_stream"
    THEN finished'
    ELSE IF Len(jobs') = Len(jobs) + 1 /\ Len(jobs') > 0 /\ jobs'[Len(jobs')].nodes = <<>>
    THEN << jobs'[Len(jobs')] >>
    ELSE <<>>

\* C20: when a node raises, the run ends and its caller gets a terminal
\* error (an error event as the last event of the run; the failed answer of
\* /start), the thread's checkpoint is the one before the failing step, and
\* when the checkpoint is one before the executor or before the reporter, an
\* approved resume that follows on the thread begins at that node.
C20_FailureLeavesCheckpoint ==
    [][/\ (finished' # <<>> /\ finished'[1].status = "failed") =>
              LET job == finished'[1]
              IN /\ \/ threads' = threads
                    \/ threads'[job.thread] = job.local
                 /\ job.handler = "run_investigator_stream" =>
                       /\ queues'[job.thread] # <<>>
                       /\ queues'[job.thread][Len(queues'[job.thread])].type = "error"
                 /\ job.handler = "start_research" =>
                       response' # <<>> /\ response'[1].status = "500"
                 /\ job.handler \notin {"run_investigator_stream", "start_research"} =>
                       /\ closed' # <<>>
                       /\ closed'[1].events[Len(closed'[1].events)].type = "error"
       /\ (/\ finished # <<>>
           /\ finished[1].status = "failed"
           /\ threads[finished[1].thread].next \in {"executor", "reporter"}
           /\ BegunResume # <<>>
           /\ BegunResume[1].thread = finished[1].thread
           /\ ApprovalClassified(BegunResume[1].feedback)) =>
              BegunResume[1].route = threads[finished[1].thread].next]_vars

-----------------------------------------------------------------------------
(* A restart of the server process                                         *)

\* a faulty variant of RecoveredStore: the checkpoints kept in memory
RecoveredStoreInMemory == <<>>

\* lifespan: AsyncSqliteSaver.from_conn_string("checkpoints.db"), the
\* checkpoints are in a file and the new process opens the same file
RecoveredStore == threads

\* the process ends and is started again: what lives in the process (the
\* event queues, the background tasks, the open connections) is gone.  A
\* restart is counted with the calls
Restart ==
    /\ calls < MaxCalls
    /\ threads' = RecoveredStore
    /\ queues' = <<>>
    /\ jobs' = <<>>
    /\ streams' = <<>>
    /\ closed' = <<>> /\ finished' = <<>>
    /\ response' = <<[call |-> "restart", thread |-> 0, status |-> "started"]>>
    /\ calls' = calls + 1
    /\ UNCHANGED <<uuids, brew>>

NextRestart ==
    \/ StartResearch
    \/ ApprovePlan
    \/ StreamEvents
    \/ ChatEndpoint
    \/ DeliverEvent
    \/ BackgroundRun
    \/ Restart

SpecRestart == Init /\ [][NextRestart]_vars

\* the last step was a restart of the process
Restarted == response # <<>> /\ response[1].call = "restart"

\* the threads that are paused after their planner, with a topic and a plan
PausedThreads ==
    { t \in DOMAIN threads :
        /\ threads[t].last = "planner"
        /\ threads[t].next = "executor"
        /\ Has(threads[t].values, "topic")
        /\ Has(threads[t].values, "research_plan") }

\* C21: a restart of the process leaves every checkpoint as it was, so that
\* a thread paused after its planner is still paused there with its topic and
\* its plan; and an approved resume of such a thread, made by the first call
\* after the restart, begins at the executor with the stored plan,
\* and when it has ended without a failure the executor and the reporter have
\* run, final_report is stored and the caller has the report: on the thread's
\* queue before the closing event, or in the answered stream.
C21_ResumeAfterRestart ==
    [][/\ Restarted' =>
              /\ threads' = threads
              /\ PausedThreads' = PausedThreads
       /\ \A job \in ShownRuns' :
              (/\ job.recovered /\ job.resumed /\ job.interrupted
               /\ job.topic # Absent
               /\ ApprovalClassified(job.feedback)) =>
                 /\ job.route = "executor"
                 /\ job.plan # Absent
                 /\ job.status = "finished" =>
                       /\ job.nodes = <<"executor", "reporter">>
                       /\ Has(threads'[job.thread].values, "final_report")
                       /\ job.handler = "run_investigator_stream" =>
                             LET queue == queues'[job.thread]
                             IN /\ queue[Len(queue)].type = "complete"
                                /\ \E k \in 1..(Len(queue) - 1) :
                                      /\ queue[k].type = "report"
                                      /\ <<queue[k].content>> =
                                            threads'[job.thread].values.final_report
                       /\ job.handler = "handle_investigator_approval_stream" =>
                             LET events == closed'[1].events
                             IN /\ events[Len(events)].type = "investigator_complete"
                                /\ \E k \in 1..(Len(events) - 1) :
                                      /\ events[k].type = "investigator_report"
                                      /\ <<events[k].content>> =
                                            threads'[job.thread].values.final_report
      ]_vars

\* a resume begun by /approve right after a restart has run the executor and
\* the reporter and has ended
C21_Witness ==
    /\ finished # <<>>
    /\ finished[1].handler = "run_investigator_stream"
    /\ finished[1].recovered /\ finished[1].interrupted
    /\ finished[1].topic # Absent
    /\ finished[1].nodes = <<"executor", "reporter">>
    /\ finished[1].status = "finished"
    /\ Has(threads[finished[1].thread].values, "final_report")

-----------------------------------------------------------------------------
(* Threads                                                                 *)

\* the threads whose checkpoint or whose event queue a step changes
Touched ==
    { t \in DOMAIN threads' : t \notin DOMAIN threads \/ threads'[t] # threads[t] }
    \cup { t \in DOMAIN queues' : t \notin DOMAIN queues \/ queues'[t] # queues[t] }

\* the thread the operation of a step works on, as the step records it: the
\* thread of the answer of /start and /approve, of the stream a chat call
\* answers with (none in the chat mode), of the stream /stream opens, of the
\* background run that took the step, of the stream that was delivered to
StepThreads ==
    IF response' # <<>> /\ response'[1].call \in {"start", "approve"}
    THEN {response'[1].thread}
    ELSE IF closed' # <<>>
    THEN IF closed'[1].handler = "chat_endpoint" THEN {} ELSE {closed'[1].thread}
    ELSE IF finished' # <<>>
    THEN {finished'[1].thread}
    ELSE IF Len(streams') = Len(streams) + 1
    THEN {streams'[Len(streams')].thread}
    ELSE { jobs[j].thread : j \in { n \in DOMAIN jobs : jobs'[n] # jobs[n] } }
         \cup { streams[s].thread : s \in { n \in DOMAIN streams : streams'[n] # streams[n] } }

\* the events a step takes from the head of the event queue of thread t
Taken(t) ==
    IF Len(queues'[t]) < Len(queues[t])
    THEN SubSeq(queues[t], 1, Len(queues[t]) - Len(queues'[t]))
    ELSE <<>>

\* the streams a step delivers to, as they are after it, each with the number
\* of events it had before
DeliveredTo ==
    IF closed' # <<>> /\ closed'[1].handler = "stream_events"
    THEN { [stream |-> closed'[1],
            had |-> Len(closed'[1].events) - Len(Taken(closed'[1].thread))] }
    ELSE IF Len(streams') = Len(streams)
    THEN { [stream |-> streams'[s], had |-> Len(streams[s].events)] :
             s \in { n \in DOMAIN streams : streams'[n] # streams[n] } }
    ELSE {}

\* C22: every operation changes the checkpoint and the event queue of no
\* thread but its own (/start and a chat start those of the new thread,
\* /approve, /stream and a chat resume those of the thread they name, a step
\* of a background run those of the run's thread, a delivery the queue of the
\* stream's thread), and it works on one thread at most; the events
\* a step delivers on a stream are those it takes from the head of the queue
\* of the stream's thread, and events leave a queue only by a delivery.
C22_ThreadsAreIsolated ==
    [][/\ Touched \subseteq StepThreads
       /\ Cardinality(StepThreads) <= 1
       /\ \A d \in DeliveredTo :
              /\ d.had >= 0
              /\ d.stream.thread \in DOMAIN queues
              /\ SubSeq(d.stream.events, d.had + 1, Len(d.stream.events))
                    = Taken(d.stream.thread)
              /\ Taken(d.stream.thread) # <<>>
       /\ \A t \in DOMAIN queues : Taken(t) # <<>> => DeliveredTo # {}
      ]_vars

\* two threads have checkpoints, one of them with events on its queue, and
\* a stream of that thread has been closed with the events it was delivered
C22_Witness ==
    /\ Cardinality(DOMAIN threads) >= 2
    /\ closed # <<>>
    /\ closed[1].handler = "stream_events"
    /\ Len(closed[1].events) >= 2

-----------------------------------------------------------------------------
(* Resumes of one thread                                                   *)

\* a checkpoint that a step stores is the checkpoint of one run, whole
WritesAreWhole ==
    \A t \in DOMAIN threads' :
        (t \notin DOMAIN threads \/ threads'[t] # threads[t]) =>
           \E job \in ShownRuns' : job.thread = t /\ threads'[t] = job.local

\* the resume that a step begins on a thread with a topic has written the
\* topic, with the value the thread had
TopicIsResupplied ==
    \A i \in DOMAIN BegunResume :
        LET job == BegunResume[i]
            stored == aget_state(job.thread).values.topic
        IN (job.resumed /\ stored # Absent) =>
              /\ "topic" \in DOMAIN job.written
              /\ <<job.written.topic>> = stored

\* C23: when resumes of one thread overlap, the checkpoint a step stores is
\* that of one of the runs, whole (the last write wins), and every resume, by
\* /approve or by a chat approval, writes the thread's stored non-empty topic
\* in its state update.
C23_ResumesResupplyTopic ==
    [][WritesAreWhole /\ TopicIsResupplied]_vars

\* the approval `feedback` has been issued for the thread before: it is the
\* feedback stored with the thread's plan (the planner clears the feedback
\* when it stores a plan)
IssuedBefore(thread_id, feedback) ==
    /\ ApprovalClassified(feedback)
    /\ Has(aget_state(thread_id).values, "research_plan")
    /\ aget_state(thread_id).values.user_feedback = <<feedback>>

\* C24: an approval issued again for a thread changes nothing: the resume it
\* begins runs no node (the executor and the reporter run for the first
\* approval only), and the step leaves the thread's gathered_data and
\* final_report as they are.
C24_ResumeIsIdempotent ==
    [][\A i \in DOMAIN BegunResume :
          LET job == BegunResume[i]
              stored == aget_state(job.thread).values
          IN (job.resumed /\ IssuedBefore(job.thread, job.feedback)) =>
                /\ job.route \notin InvNodes
                /\ job.nodes = <<>>
                /\ threads'[job.thread].values.gathered_data = stored.gathered_data
                /\ threads'[job.thread].values.final_report = stored.final_report
      ]_vars

-----------------------------------------------------------------------------
(* Streams that the client leaves                                          *)

ApprovalStream == "handle_investigator_approval_stream"

\* the number of entries up to the i-th that the chat approval handler made
Rank(seq, i) == Cardinality({ k \in 1..i : seq[k].handler = ApprovalStream })

\* the answer stream of the chat approval run jobs[j], and the run of the
\* answer stream streams[s]: the generator runs the graph itself
StreamOf(j) ==
    CHOOSE s \in DOMAIN streams :
        streams[s].handler = ApprovalStream /\ Rank(streams, s) = Rank(jobs, j)

RunOf(s) ==
    CHOOSE j \in DOMAIN jobs :
        jobs[j].handler = ApprovalStream /\ Rank(jobs, j) = Rank(streams, s)

\* handle_investigator_approval_stream up to its return: the feedback is
\* written as the planner's and the answer is a stream that event_generator
\* will write, the status event first
approval_stream_begin(thread_id, feedback) ==
    /\ calls < MaxCalls
    /\ LET snapshot == aget_state(thread_id)
           stored_topic == Get(snapshot.values, "topic", <<>>)
           update == [user_feedback |-> feedback, topic |-> stored_topic]
           updated == aupdate_state(snapshot, update, <<"planner">>)
       IN /\ Has(snapshot.values, "research_plan")
          /\ stored_topic # <<>>
          /\ threads' = Put(threads, thread_id, updated)
          /\ jobs' = Append(jobs, Job(ApprovalStream, thread_id, snapshot, updated, TRUE,
                                      update))
          /\ streams' = Append(streams,
                               Stream(ApprovalStream, thread_id,
                                      << ClientEvent("investigator_status",
                                                     <<"Plan approved">>, "") >>))
    /\ calls' = calls + 1
    /\ closed' = <<>> /\ finished' = <<>> /\ response' = <<>>
    /\ UNCHANGED <<queues, uuids, brew>>

\* handle_investigator_approval_stream.event_generator: the events of one
\* node of the run are yielded, and the last event when the run has ended
approval_event_generator(j) ==
    /\ j \in DOMAIN jobs
    /\ jobs[j].handler = ApprovalStream
    /\ \E outcome \in StepOutcomes(jobs[j].local) :
          LET job == jobs[j]
              s == StreamOf(j)
              run == StepOf(job.local, outcome)
              store == IF run.write THEN Put(threads, job.thread, run.local) ELSE threads
              events == Translated(job.handler, run.internal)
                           \o (IF run.status = "running"
                               THEN <<>>
                               ELSE Closing(job.handler, job.thread, run.status = "failed",
                                            store[job.thread]))
              written == [streams[s] EXCEPT !.events = @ \o events]
          IN /\ threads' = store
             /\ IF run.status = "running"
                THEN /\ jobs' = [jobs EXCEPT ![j] = JobAfter(job, run)]
                     /\ streams' = [streams EXCEPT ![s] = written]
                     /\ finished' = <<>> /\ closed' = <<>>
                ELSE /\ jobs' = Without(jobs, j)
                     /\ streams' = Without(streams, s)
                     /\ finished' = <<JobAfter(job, run)>>
                     /\ closed' = <<written>>
    /\ response' = <<>>
    /\ UNCHANGED <<queues, uuids, calls, brew>>

\* the client closes the connection of stream s: the generator that writes
\* the stream is cancelled where it waits.  The generator of /stream waits
\* for the queue (stream_events 862-864); the generator of the chat approval
\* waits for the graph run it iterates, which is cancelled with it
Abandon(s) ==
    /\ s \in DOMAIN streams
    /\ streams' = Without(streams, s)
    /\ IF streams[s].handler = ApprovalStream
       THEN /\ jobs' = Without(jobs, RunOf(s))
            /\ finished' = <<[jobs[RunOf(s)] EXCEPT !.status = "cancelled"]>>
       ELSE /\ jobs' = jobs
            /\ finished' = <<>>
    /\ response' = <<[call |-> "abandon", thread |-> streams[s].thread,
                       status |-> streams[s].handler]>>
    /\ closed' = <<>>
    /\ UNCHANGED <<threads, queues, uuids, calls, brew>>

ApprovalStreamBegin ==
    \E thread_id \in NamedThreads, feedback \in {FbApproved} :
        approval_stream_begin(thread_id, feedback)

ApprovalStreamRun == \E j \in DOMAIN jobs : approval_event_generator(j)

AbandonStream == \E s \in DOMAIN streams : Abandon(s)

NextAbandon ==
    \/ StartResearch
    \/ ApprovePlan
    \/ StreamEvents
    \/ DeliverEvent
    \/ BackgroundRun
    \/ ApprovalStreamBegin
    \/ ApprovalStreamRun
    \/ AbandonStream

SpecAbandon == Init /\ [][NextAbandon]_vars

\* the resumed runs in progress: approved resumes of a thread that was paused
\* after its planner
ResumedRuns ==
    { j \in DOMAIN jobs :
        /\ jobs[j].resumed /\ jobs[j].interrupted
        /\ ApprovalClassified(jobs[j].feedback) }

\* the last step was a client leaving a stream
Abandoned == response # <<>> /\ response[1].call = "abandon"

\* C25: when the client leaves a stream while resumed runs are in progress,
\* the runs are as they were and go on, and the checkpoints and the queues
\* are not changed; and a resumed run ends only at the end of the graph,
\* with executor and reporter run and final_report stored (a background run
\* with its closing event on the thread's queue), or when a node raises.
C25_AbandonedStreamLeavesRun ==
    [][/\ Abandoned' =>
              /\ \A j \in ResumedRuns : j \in DOMAIN jobs' /\ jobs'[j] = jobs[j]
              /\ threads' = threads
              /\ queues' = queues
       /\ \A i \in DOMAIN finished' :
              LET job == finished'[i]
              IN (job.resumed /\ job.interrupted /\ ApprovalClassified(job.feedback)) =>
                    /\ job.status \in {"finished", "failed"}
                    /\ job.status = "finished" =>
                          /\ job.nodes = <<"executor", "reporter">>
                          /\ Has(threads'[job.thread].values, "final_report")
                          /\ job.handler = "run_investigator_stream" =>
                                queues'[job.thread][Len(queues'[job.thread])].type = "complete"
      ]_vars

-----------------------------------------------------------------------------
(* The brew graph: what the nodes hand to later steps                      *)

\* the update the node of a step has returned (the step has not failed)
Returned == Node(pc, ViewOf(pc, state), last'.outcome).update

\* what a later node or routing function reads under `key` after the step
ReadAfter(key, default) == Get(state', key, default)

\* C26: a step of research_worker that returns makes iteration_count, as the
\* state shows it to the routing decision that follows, 1 greater than it was,
\* and research_data is afterwards its previous value with the new findings
\* appended.
C26_ResearchAccumulates ==
    [][(pc = "research_worker" /\ pc' # "FAILED") =>
          /\ ReadAfter("iteration_count", 0) = Get(state, "iteration_count", 0) + 1
          /\ IsPrefix(Get(state, "research_data", <<>>), ReadAfter("research_data", <<>>))
          /\ Len(ReadAfter("research_data", <<>>))
                = Len(Get(state, "research_data", <<>>)) + 1
      ]_vars

\* the workers that complete their assignment
CompletingWorkers == WorkerNodes \ {"research_worker", "reviewer_worker"}

HandedOn ==
    {"route", "assignment", "research_data", "iteration_count", "critique_feedback"}

\* C28: whatever a node returns under route, assignment, research_data,
\* iteration_count or critique_feedback is in the state after its step, so
\* that the edge after task_router leads to the route the router returned.
C28_WrittenValuesAreRead ==
    [][(pc \in NodeNames /\ pc' # "FAILED") =>
          /\ \A key \in DOMAIN Returned \cap HandedOn :
                /\ key \in DOMAIN state'
                /\ state'[key] = <<Returned[key]>>
          /\ pc = "task_router" => pc' = Returned.route
      ]_vars

\* C29: a worker node that finds an assignment in its input builds its
\* report and returns, whether its agent answers or raises: no step of a
\* worker node fails on the construction of the WorkerReport.
C29_WorkerReportIsAccepted ==
    [][(pc \in WorkerNodes /\ Has(state, "assignment")) => pc' # "FAILED"]_vars

\* C30: when the planner has stored a plan with at least one task, the
\* cursor is 0 for the task_router step that follows, whatever the thread's
\* state held before.
C30_PlannerResetsCursor ==
    [][(pc = "planner" /\ pc' = "task_router" /\ Tasks(state') # <<>>) =>
          Cursor(state') = 0
      ]_vars

-----------------------------------------------------------------------------
(* The debate state at the entry of research_worker                        *)

\* C31: at every entry of research_worker, so at the first for each research
\* assignment, the node reads iteration_count 0 and an empty
\* critique_feedback, whatever the thread's state holds of earlier work: the
\* agent is given the assignment's own task text, and research_worker has
\* run at most 3 times when the run goes on.
C31_DebateStartsFresh ==
    [][pc = "research_worker" =>
          /\ Get(ViewOf(pc, state), "iteration_count", 0) = 0
          /\ Get(ViewOf(pc, state), "critique_feedback", "") = ""
          /\ Count(visited', "research_worker") <= MaxDebateIterations
      ]_vars

\* research_worker has run, and returned, on a state that held the report
\* of earlier work
C31_Witness ==
    /\ last.node = "research_worker"
    /\ ~last.raised
    /\ Len(Reports(state)) >= 2
    /\ Reports(state)[1] = StoredReport
    /\ Reports(state)[2].worker = "research"

-----------------------------------------------------------------------------
(* The human-review workflow: classification, queues, the executor         *)

\* C32: a resume that chat_endpoint hands to the approval handler, on a
\* thread paused after its planner, is routed by should_continue to the
\* executor, and when no node raises the answer stream carries the report
\* before its completion event.
C32_ApprovalDispatchMeansExecutor ==
    \A i \in DOMAIN finished :
        LET job == finished[i]
            events == closed[1].events
        IN (job.handler = ApprovalStream /\ job.interrupted) =>
              /\ job.route = "executor"
              /\ job.status # "failed" =>
                    /\ events[Len(events)].type = "investigator_complete"
                    /\ \E k \in 1..(Len(events) - 1) :
                          events[k].type = "investigator_report"

\* C33: on one thread no two background runs that /approve began on the
\* thread's paused plan are in progress together, so
\* that one run at a time puts events on the thread's queue, and when a
\* consumer of /stream has received its terminal event the thread's queue is
\* empty: nothing of another run is left for the next consumer.
C33_OneRunPerQueue ==
    /\ \A j, k \in DOMAIN jobs :
          (j # k /\ jobs[j].interrupted /\ jobs[k].interrupted) =>
             jobs[j].thread # jobs[k].thread
    /\ \A i \in DOMAIN closed :
          closed[i].handler = "stream_events" => queues[closed[i].thread] = <<>>

\* C34: in a run in which the executor has completed, the state the run goes
\* on with, which the reporter reads and the thread keeps, has an empty
\* user_feedback.
C34_ExecutorClearsFeedback ==
    \A job \in ShownRuns :
        (\E i \in DOMAIN job.nodes : job.nodes[i] = "executor") =>
           (job.local.last \in {"executor", "reporter"} =>
               Get(job.local.values, "user_feedback", <<>>) = <<>>)

\* the state of a run in which the executor has completed
AfterExecutor(job) == job.local.last \in {"executor", "reporter"}

\* gathered_data holds one entry for every task of the plan, in plan order
OneEntryPerTask(values) ==
    LET tasks == plan_tasks(values)
        data == Get(values, "gathered_data", <<>>)
    IN /\ Len(data) = Len(tasks)
       /\ \A i \in DOMAIN tasks :
             /\ data[i].task = tasks[i].name
             /\ data[i].goal = tasks[i].goal
             /\ data[i].result # <<>>

\* C35: when the executor has completed, gathered_data holds exactly one
\* entry for every task of the plan, in plan order, and no step takes an
\* entry out of a thread's gathered_data or puts another in its place: what
\* a thread holds is a prefix of what it holds after the step.
C35_EntriesAreKept ==
    [][/\ \A job \in ShownRuns' : AfterExecutor(job) => OneEntryPerTask(job.local.values)
       /\ \A t \in DOMAIN threads :
              IsPrefix(Get(threads[t].values, "gathered_data", <<>>),
                       Get(threads'[t].values, "gathered_data", <<>>))
      ]_vars

\* the reporter runs last in its run, on the data of a completed executor
\* step, and the run it completes is at the end of the graph
ReporterIsLast(job) ==
    \A i \in DOMAIN job.nodes :
        job.nodes[i] = "reporter" =>
           /\ i = Len(job.nodes)
           /\ Has(job.local.values, "gathered_data")
           /\ job.status \in {"finished", "failed"}
           /\ job.status = "finished" =>
                 /\ job.local.next = "END"
                 /\ Has(job.local.values, "final_report")

\* a step changes a thread's final_report only by a reporter step
OnlyReporterWrites ==
    \A t \in DOMAIN threads :
        threads'[t].values.final_report # threads[t].values.final_report =>
           threads'[t].last = "reporter"

\* no resume is begun towards the executor or the reporter on a thread whose
\* final_report is written
ReportIsFinal ==
    \A i \in DOMAIN BegunResume :
        Has(aget_state(BegunResume[i].thread).values, "final_report") =>
           BegunResume[i].route \notin {"executor", "reporter"}

\* C36: final_report is written by the reporter only, on the data of a
\* completed executor step and as the last step of a run that then is at the
\* end of the graph; and it is written once: no call on a thread whose
\* final_report is written makes the reporter write it again.
C36_ReportWrittenOnce ==
    [][/\ \A job \in ShownRuns' : ReporterIsLast(job)
       /\ OnlyReporterWrites
       /\ ReportIsFinal
      ]_vars

\* the arguments the plan supplies for a task's tool and a call carries too
SuppliedArgs(task, args) == {"url", "query"} \cap DOMAIN task.tool_args \cap DOMAIN args

\* C37: when the executor has completed, every tool call it made for a task
\* whose plan supplies a url or a query was made with the plan's value of
\* that argument.
C37_PlanArgsAreUsed ==
    \A job \in ShownRuns :
        AfterExecutor(job) =>
           LET tasks == plan_tasks(job.local.values)
               data == Get(job.local.values, "gathered_data", <<>>)
           IN \A i \in DOMAIN data :
                 \A c \in DOMAIN data[i].result :
                    LET piece == data[i].result[c]
                    IN piece[1] = "Tool Output from" =>
                          \A k \in SuppliedArgs(tasks[i], piece[3]) :
                             piece[3][k] = tasks[i].tool_args[k]

\* a tool call of the executor raised in the run behind `events`: the call
\* was begun and the event after it does not tell its end
ToolRaised(events) ==
    \E k \in 1..(Len(events) - 1) :
        /\ events[k].type = "investigator_status"
        /\ events[k].node = "executor"
        /\ events[k].content[1] = "Running"
        /\ ~ /\ events[k + 1].type = "investigator_status"
              /\ events[k + 1].content[Len(events[k + 1].content)] = "completed"

\* the pieces of an entry of gathered_data that tell the exception of a tool
ErrorPieces(entry) ==
    { c \in DOMAIN entry.result : entry.result[c][1] = "Error executing" }

\* C38: the exception of a tool is caught in the executor: its text is a
\* piece of the result of its task, the call requested after it is made
\* too and gathered_data holds one entry for every task, the failing one
\* included; and a run in which a tool raised completes the executor step
\* and goes on to the reporter.
C38_ToolErrorsAreCaught ==
    /\ \A job \in ShownRuns :
          AfterExecutor(job) =>
             LET data == Get(job.local.values, "gathered_data", <<>>)
             IN \A i \in DOMAIN data :
                   ErrorPieces(data[i]) # {} =>
                      /\ OneEntryPerTask(job.local.values)
                      /\ \A c \in ErrorPieces(data[i]) :
                            \E d \in DOMAIN data[i].result :
                               d > c /\ data[i].result[d][1] = "Tool Output from"
    /\ \A i \in DOMAIN finished :
          LET job == finished[i]
          IN (job.handler = ApprovalStream /\ ToolRaised(closed[1].events)) =>
                /\ AfterExecutor(job)
                /\ \E n \in DOMAIN job.nodes : job.nodes[n] = "reporter"
                /\ \E e \in DOMAIN job.local.values.gathered_data[1] :
                      ErrorPieces(job.local.values.gathered_data[1][e]) # {}

\* a run in which the first tool call raised has ended with the reporter's
\* report, the text of the exception in the entry of the first task
C38_Witness ==
    /\ finished # <<>>
    /\ finished[1].handler = ApprovalStream
    /\ finished[1].status = "finished"
    /\ finished[1].nodes = <<"executor", "reporter">>
    /\ ToolRaised(closed[1].events)
    /\ Len(finished[1].local.values.gathered_data[1]) = 2
    /\ ErrorPieces(finished[1].local.values.gathered_data[1][1]) = {1}
    /\ Has(finished[1].local.values, "final_report")

-----------------------------------------------------------------------------
(* The planner's decision, by tokens                                       *)

\* the decision by the tokens of the message alone: a greeting token in a
\* message of at most GreetingMaxTokens tokens, else no action keyword among
\* at most GeneralMaxTokens tokens
decision_by_tokens(user_text) ==
    LET tokens == tokens_of(strip(lower(user_text)))
    IN IF Len(tokens) <= GreetingMaxTokens
          /\ \E i \in DOMAIN tokens : tokens[i] \in simple_greetings
       THEN "direct"
       ELSE IF Len(tokens) <= GeneralMaxTokens
               /\ \A i \in DOMAIN tokens : tokens[i] \notin action_keywords
            THEN "general"
            ELSE "structured"

DecisionByTokensOf == [text \in Messages |-> decision_by_tokens(text)]

\* which of its three returns the planner has taken, as the state shows it
\* after the planner's step (the structured return is the one with the model
\* call, which may raise)
PathTaken ==
    IF last.raised THEN "structured"
    ELSE LET reasoning == Get(state, "task_plan", Absent).reasoning
         IN IF reasoning = "Direct response" THEN "direct"
            ELSE IF reasoning = "General question - no internet needed" THEN "general"
            ELSE "structured"

\* C39: the return the planner takes is the decision by the tokens of the
\* message: direct for a greeting token among at most 6 tokens, else the
\* general worker's plan for at most 25 tokens none of which is an action
\* keyword (a word that contains a keyword is none), else the structured
\* plan.
C39_PlannerDecidesByTokens ==
    last.node = "planner" => PathTaken = DecisionByTokensOf[CurrentMessage]

-----------------------------------------------------------------------------
(* Feedback at the interrupt                                               *)

\* the revision words the classification is said to know
RevisionWords == { <<"m", "o", "d", "i", "f", "y">>, <<"a", "d", "d">>, <<"r", "e", "m", "o", "v", "e">> }

\* the feedback asks for a revision: more than a few words, or a revision
\* word among them
AsksRevision(feedback) ==
    LET words == split(strip(lower(feedback)))
    IN \/ Len(words) > IntentMaxShortWords
       \/ \E i \in DOMAIN words : words[i] \in RevisionWords

\* the node the graph goes to from the interrupt of thread t when `feedback`
\* is stored as the planner's
RouteWith(t, feedback) ==
    should_continue([threads[t].values EXCEPT !.user_feedback = <<feedback>>])

\* C40: at the interrupt after the planner every feedback text is classified
\* by what it says, by the graph's routing and by the server's intent
\* detection alike: an empty text and an approval word mean proceed (the
\* executor is next, the intent is not feedback); a text of more than a few
\* words, or with one of the words modify, add, remove, means a new planning
\* round (the planner is next, the intent is feedback).
C40_FeedbackIsClassified ==
    \A t \in DOMAIN threads :
        threads[t].last = "planner" =>
           \A text \in ClassifiedTexts :
              /\ (text = <<>> \/ ApprovalClassified(text)) =>
                    /\ RouteWith(t, text) = "executor"
                    /\ DetectedIntentOf[text] # <<"feedback">>
              /\ AsksRevision(text) =>
                    /\ RouteWith(t, text) = "planner"
                    /\ DetectedIntentOf[text] = <<"feedback">>

====
